---- MODULE Spec2Model ----
(***************************************************************************)
(* Model of the sweep orchestrator of QF_auto (workflow.py,                *)
(* run_batch_force_plan) together with the geometry, mesh and solve        *)
(* helpers it calls, and of the GUI's cancel signal.                       *)
(*                                                                         *)
(* Coordinates are integers: one unit is one sampling step of the sweep.   *)
(* The code's tolerance 1e-9 (abs(d) <= 1e-9) is far below one unit, so a   *)
(* delta is "zero" in the code exactly when it is <<0, 0>> here.           *)
(*                                                                         *)
(* The external engine is modelled by its observable state: the            *)
(* displacement of every vertex since the sweep started (geom) and the     *)
(* field value of every label (fields).  Every engine call either          *)
(* completes, with its effect, or raises, without effect; which of the two *)
(* happens is chosen nondeterministically at each call.                    *)
(***************************************************************************)
EXTENDS Integers, Sequences, FiniteSets, TLC

(***************************************************************************)
(* Bounds of the model.                                                    *)
(***************************************************************************)
MaxCases == 2      \* at most this many cases in the sweep
MaxSteps == 1      \* a position line has at most MaxSteps + 1 samples
MaxFaults == 2     \* at most this many engine operations of a run misbehave

(***************************************************************************)
(* Return codes of run_batch_force_plan.                                   *)
(***************************************************************************)
RC_OK == 0
RC_NO_PROBLEM == 1
RC_NO_MODEL == 2
RC_NO_LABELS == 3
RC_NO_CASES == 4
RC_NO_POSITIONS == 5
RC_NO_OUTPUTS == 6
RC_NO_BLOCK == 6
RC_NO_BOUNDS == 7
RC_MOVE == 8
RC_MESH == 9
RC_SOLVE == 10
RC_RESULT == 11
RC_CONTOUR == 12
RC_INTEGRAL == 13
RC_CANCEL == 99

(***************************************************************************)
(* Vectors and rectangles (left, bottom, right, top).                      *)
(***************************************************************************)
Zero == <<0, 0>>
Add(p, q) == <<p[1] + q[1], p[2] + q[2]>>
Sub(p, q) == <<p[1] - q[1], p[2] - q[2]>>
Neg(p) == <<0 - p[1], 0 - p[2]>>
SetMin(S) == CHOOSE x \in S : \A y \in S : x <= y
SetMax(S) == CHOOSE x \in S : \A y \in S : x >= y

\* the concatenation of a sequence of sequences (nested for loops)
RECURSIVE Flat(_)
Flat(lists) == IF lists = <<>> THEN <<>> ELSE Head(lists) \o Flat(Tail(lists))

(***************************************************************************)
(* The geometry held by the engine when the sweep starts: two blocks       *)
(* labelled A and B and a block labelled C that lies between them, each    *)
(* represented by one of its vertices.  The sweep moves A and B.           *)
(***************************************************************************)
Verts == {1, 2, 3}
BasePt == <<(<<0, 0>>), (<<1, 1>>), (<<1, 0>>)>>
Blocks == {"A", "B", "C"}
BlockVerts == ("A" :> {1}) @@ ("B" :> {2}) @@ ("C" :> {3})
FieldLabels == {"A", "B"}

VertexPos(g, v) == Add(BasePt[v], g[v])

\* _block_bounds, last resort: the extent of the block's vertices
BlockBounds(g, b) ==
    LET xs == {VertexPos(g, v)[1] : v \in BlockVerts[b]}
        ys == {VertexPos(g, v)[2] : v \in BlockVerts[b]}
    IN  <<SetMin(xs), SetMin(ys), SetMax(xs), SetMax(ys)>>

\* _union_bounds taking the largest left and bottom and the smallest right and top
UnionBounds_common(bounds) ==
    <<SetMax({b[1] : b \in bounds}), SetMax({b[2] : b \in bounds}),
      SetMin({b[3] : b \in bounds}), SetMin({b[4] : b \in bounds})>>

\* _union_bounds
UnionBounds(bounds) ==
    <<SetMin({b[1] : b \in bounds}), SetMin({b[2] : b \in bounds}),
      SetMax({b[3] : b \in bounds}), SetMax({b[4] : b \in bounds})>>

\* rect_now = (rect_now[0] + dx, rect_now[1] + dy, rect_now[2] + dx, rect_now[3] + dy)
Translate(r, d) == <<r[1] + d[1], r[2] + d[2], r[3] + d[1], r[4] + d[2]>>

InRect(p, r) == r[1] <= p[1] /\ p[1] <= r[3] /\ r[2] <= p[2] /\ p[2] <= r[4]

\* Blocks.InRectangle: the blocks lying wholly inside the rectangle
BlocksInRect(g, r) ==
    {b \in Blocks : \A v \in BlockVerts[b] : InRect(VertexPos(g, v), r)}

\* the engine displaces the vertices in S by d
Displace(g, S, d) == [v \in Verts |-> IF v \in S THEN Add(g[v], d) ELSE g[v]]

VertsOf(bs) == UNION {BlockVerts[b] : b \in bs}

(***************************************************************************)
(* Inputs of run_batch_force_plan.                                         *)
(***************************************************************************)
MoveLabels == <<"A", "B">>
Integrals == <<"Force", "Torque">>

\* the i-th case: a mapping label -> field value
CaseAt(i) == IF i % 2 = 1 THEN ("A" :> 100) @@ ("B" :> 300) ELSE ("A" :> 200)
CaseLists == {[i \in 1..n |-> CaseAt(i)] : n \in 0..MaxCases}

\* a sampled line of n + 1 positions from (1, 2) in steps of (1, 2)
Line(n) == [i \in 1..(n + 1) |-> <<i, 2 * i>>]
PositionLists == {<<>>} \cup {Line(n) : n \in 0..MaxSteps}

\* the explored settings of <<mesh, remesh, mesh_once>>; the GUI passes the first
FlagChoices == {<<TRUE, TRUE, FALSE>>, <<TRUE, FALSE, TRUE>>, <<FALSE, FALSE, FALSE>>}

\* _collect_vertices_for_labels: the vertices of the moving blocks, each once
MovingVerts == VertsOf({MoveLabels[i] : i \in 1..Len(MoveLabels)})

(***************************************************************************)
(* The call forms tried on an engine object (a vertex, a label, a shape,   *)
(* a selection) to displace it by (dx, dy).  A target is described by how  *)
(* the engine answers: pxy: qf.PointXY(...) completes; point: target.Point *)
(* can be read; xy: the point's X and Y can be read; ok: the call forms    *)
(* that complete on it.  Each helper returns its value together with the   *)
(* call forms it attempted, in order.  None is written "None".             *)
(***************************************************************************)
Forms == {"Move()", "Move(dx,dy)", "Move(PointXY)", "Move(PointXY,PointXY)",
          "Point=PointXY", "Point.X", "Point.Y"}
Targets == [pxy : BOOLEAN, point : BOOLEAN, xy : BOOLEAN, ok : SUBSET Forms]

\* for name, params in attempts: the index of the first form that completes, 0 if none
FirstOk(t, attempts) ==
    LET S == {i \in DOMAIN attempts : attempts[i] \in t.ok}
    IN  IF S = {} THEN 0 ELSE SetMin(S)

try_move(t) ==
    LET attempts == <<"Move()">> \o (IF t.pxy
                                      THEN <<"Move(dx,dy)", "Move(PointXY)",
                                             "Move(PointXY,PointXY)">>
                                      ELSE <<"Move(dx,dy)">>)
        k == FirstOk(t, attempts)
    IN  IF k = 0 THEN [name |-> "None", calls |-> attempts]
        ELSE [name |-> attempts[k], calls |-> SubSeq(attempts, 1, k)]

try_point_assign(t) ==
    IF ~t.point THEN [name |-> "Point read failed", calls |-> <<>>]
    ELSE IF ~t.xy THEN [name |-> "Point.X/Y read failed", calls |-> <<>>]
    ELSE IF ~t.pxy THEN [name |-> "PointXY failed", calls |-> <<>>]
    ELSE IF "Point=PointXY" \in t.ok
         THEN [name |-> "Point=PointXY", calls |-> <<"Point=PointXY">>]
    ELSE IF "Point.X" \notin t.ok
         THEN [name |-> "Point set failed", calls |-> <<"Point=PointXY", "Point.X">>]
    ELSE IF "Point.Y" \notin t.ok
         THEN [name |-> "Point set failed",
               calls |-> <<"Point=PointXY", "Point.X", "Point.Y">>]
    ELSE [name |-> "Point.X/Y set", calls |-> <<"Point=PointXY", "Point.X", "Point.Y">>]

\* move_vertex, lines 444-462: the point is reassigned, or its X and Y are set
PointFallback(t) ==
    IF ~(t.point /\ t.xy) THEN [ok |-> FALSE, calls |-> <<>>]
    ELSE IF t.pxy /\ "Point=PointXY" \in t.ok
         THEN [ok |-> TRUE, calls |-> <<"Point=PointXY">>]
    ELSE LET tried == IF t.pxy THEN <<"Point=PointXY">> ELSE <<>>
         IN  IF "Point.X" \notin t.ok
             THEN [ok |-> FALSE, calls |-> tried \o <<"Point.X">>]
             ELSE [ok |-> "Point.Y" \in t.ok, calls |-> tried \o <<"Point.X", "Point.Y">>]

move_vertex(t) ==
    LET m == try_move(t)
        a == PointFallback(t)
    IN  IF m.name # "None" THEN [ok |-> TRUE, calls |-> m.calls]
        ELSE IF a.ok THEN [ok |-> TRUE, calls |-> m.calls \o a.calls]
        ELSE [ok |-> "Move()" \in t.ok, calls |-> m.calls \o a.calls \o <<"Move()">>]

\* what a call form that completes does to the target's point: Move() passes
\* no delta, the other Move forms and the point assignment pass (dx, dy), the
\* X and Y assignments one coordinate each
FormEffect(form, d) ==
    CASE form = "Move()" -> Zero
      [] form = "Point.X" -> <<d[1], 0>>
      [] form = "Point.Y" -> <<0, d[2]>>
      [] OTHER -> d

\* the displacement of target t after the call forms of calls were attempted
RECURSIVE Displaced(_, _, _)
Displaced(t, calls, d) ==
    IF calls = <<>> THEN Zero
    ELSE Add(IF Head(calls) \in t.ok THEN FormEffect(Head(calls), d) ELSE Zero,
             Displaced(t, Tail(calls), d))

\* move_block_labels, lines 480-484, for one label
LabelMove(t) ==
    LET a == try_point_assign(t)
        m == try_move(t)
    IN  IF a.name = "None" THEN [name |-> m.name, calls |-> a.calls \o m.calls]
        ELSE a

\* move_block_labels over the labels ts whose names match
move_block_labels(ts) ==
    LET rs == [i \in DOMAIN ts |-> LabelMove(ts[i])]
    IN  [moved |-> Cardinality({i \in DOMAIN ts : rs[i].name # "None"}), calls |-> rs]

\* cmd_model, move_shape, lines 994-996, for one shape
ShapeMove(t) ==
    LET m == try_move(t)
        a == try_point_assign(t)
    IN  IF m.name = "None" THEN [name |-> a.name, calls |-> m.calls \o a.calls]
        ELSE m

\* cmd_model, one move_shape action on a label whose shapes are ts
move_shape(ts) ==
    LET rs == [i \in DOMAIN ts |-> ShapeMove(ts[i])]
        bad == {i \in DOMAIN ts : rs[i].name = "None"}
    IN  IF ts = <<>> THEN [rc |-> 4, moved_total |-> 0, calls |-> <<>>]
        ELSE IF bad # {}
             THEN [rc |-> 5, moved_total |-> SetMin(bad) - 1,
                   calls |-> SubSeq(rs, 1, SetMin(bad))]
             ELSE [rc |-> 0, moved_total |-> Len(ts), calls |-> rs]

(***************************************************************************)
(* _collect_vertices_for_labels(model, labels).  Coordinates are integers  *)
(* in units of 1e-10, so that round(x, 9) is a rounding to the nearest ten.*)
(* pt: the point of every engine vertex; readable: the vertices whose      *)
(* Point, X and Y can be read; blocks: for every label whose block was     *)
(* found, how its vertices are reached (blk.Vertices, or the Start and End *)
(* of blk.Edges) and the vertices met, in order.                           *)
(***************************************************************************)
\* round(x, 9) for x >= 0, ties to even
Round9(x) ==
    LET q == x \div 10
        r == x % 10
    IN  IF r < 5 THEN q
        ELSE IF r > 5 THEN q + 1
        ELSE IF q % 2 = 0 THEN q ELSE q + 1

\* key = (round(float(pt.X), 9), round(float(pt.Y), 9))
Key(p) == <<Round9(p[1]), Round9(p[2])>>

\* the vertices met, block after block, each with the way it was reached
RECURSIVE Met(_)
Met(blocks) ==
    IF blocks = <<>> THEN <<>>
    ELSE [i \in DOMAIN Head(blocks).vs |-> [v |-> Head(blocks).vs[i],
                                             via |-> Head(blocks).via]]
             \o Met(Tail(blocks))

\* _add_vertex and _add_point_obj over the vertices met
RECURSIVE AddAll(_, _, _, _, _)
AddAll(met, pt, readable, vertices, seen) ==
    IF met = <<>> THEN vertices
    ELSE LET e == Head(met)
             key == Key(pt[e.v])
         IN  IF e.v \notin readable
             THEN AddAll(Tail(met), pt, readable,
                         IF e.via = "Vertices" THEN Append(vertices, e.v) ELSE vertices,
                         seen)
             ELSE IF key \in seen
                  THEN AddAll(Tail(met), pt, readable, vertices, seen)
                  ELSE AddAll(Tail(met), pt, readable, Append(vertices, e.v),
                              seen \cup {key})

_collect_vertices_for_labels(blocks, pt, readable) ==
    AddAll(Met(blocks), pt, readable, <<>>, {})

(***************************************************************************)
(* move_vertices_by_block_label(model, label, qf, dx, dy).  sel: the       *)
(* vertices of model.Selection.LabeledAs(label), <<>> when the selection   *)
(* raises or is empty; shapes: the vertex lists of the shapes whose        *)
(* BlockLabel is the label, in scan order; pos: where every vertex is;     *)
(* readable: the vertices whose Point can be read; movable: the vertices   *)
(* on which move_vertex finds a form that completes, displacing the vertex *)
(* by d.  Coordinates are in units of 1e-10.  The result holds the two     *)
(* counts, the vertices move_vertex was called on, in order, and where     *)
(* every vertex is afterwards.                                             *)
(***************************************************************************)
\* move_vertices(selection, qf, dx, dy)
RECURSIVE move_vertices(_, _, _, _, _)
move_vertices(vs, pos, movable, d, r) ==
    IF vs = <<>> THEN r
    ELSE LET v == Head(vs)
             ok == v \in movable
         IN  move_vertices(Tail(vs), pos, movable, d,
                 [moved |-> r.moved + (IF ok THEN 1 ELSE 0),
                  total |-> r.total + 1,
                  calls |-> Append(r.calls, v),
                  pos |-> IF ok THEN [r.pos EXCEPT ![v] = Add(@, d)] ELSE r.pos])

\* lines 108-132: the scan over the shapes' vertices; the point of a vertex
\* is read when the vertex is met
RECURSIVE ShapeScan(_, _, _, _, _, _)
ShapeScan(met, readable, movable, d, seen, r) ==
    IF met = <<>> THEN r
    ELSE LET v == Head(met)
             known == v \in readable
             key == Key(r.pos[v])
             ok == v \in movable
         IN  IF known /\ key \in seen
             THEN ShapeScan(Tail(met), readable, movable, d, seen, r)
             ELSE ShapeScan(Tail(met), readable, movable, d,
                      IF ok /\ known THEN seen \cup {key} ELSE seen,
                      [moved |-> r.moved + (IF ok THEN 1 ELSE 0),
                       total |-> r.total + 1,
                       calls |-> Append(r.calls, v),
                       pos |-> IF ok THEN [r.pos EXCEPT ![v] = Add(@, d)] ELSE r.pos])

move_vertices_by_block_label(sel, shapes, pos, readable, movable, d) ==
    LET none == [moved |-> 0, total |-> 0, calls |-> <<>>, pos |-> pos]
        first == move_vertices(sel, pos, movable, d, none)
    IN  IF first.total > 0 THEN first
        ELSE ShapeScan(Flat(shapes), readable, movable, d, {}, none)

(***************************************************************************)
(* run_batch_force_plan, lines 495-539: the table written to the CSV file  *)
(* or logged.  table is the set of recorded cells <<position, case index,  *)
(* column>>; a recorded cell is rendered <<cell>>, an absent one <<>> (the *)
(* empty string of the code).  A header entry <<case, column>> stands for  *)
(* the text "case_label:column".                                           *)
(***************************************************************************)
\* integral_name if comp == "" else f"{integral_name}.{comp}"
ColName(integral_name, comp) ==
    IF comp = "" THEN integral_name ELSE integral_name \o "." \o comp

\* _integral_components.  val tells for each axis whether the attribute is
\* absent, converts to float ("num") or makes float() raise ("bad"), and the
\* same for float(val) itself; a component is <<name, value>>, the value
\* named by where it was read, "nan" for float("nan").
Axes == <<"X", "Y", "Z">>
RECURSIVE AxisComps(_, _)
AxisComps(val, axes) ==
    IF axes = <<>> THEN <<>>
    ELSE (IF val[Head(axes)] = "num" THEN <<(<<Head(axes), Head(axes)>>)>> ELSE <<>>)
         \o AxisComps(val, Tail(axes))

_integral_components(val) ==
    IF AxisComps(val, Axes) # <<>> THEN AxisComps(val, Axes)
    ELSE IF val.scalar = "num" THEN <<(<<"", "val">>)>>
    ELSE <<(<<"", "nan">>)>>

\* output_cols: for every integral its seen components, [""] when none was seen
output_cols(ints, seen_components) ==
    Flat([k \in DOMAIN ints |->
            LET comps == IF seen_components[ints[k]] = <<>> THEN <<"">>
                         ELSE seen_components[ints[k]]
            IN  [c \in DOMAIN comps |-> ColName(ints[k], comps[c])]])

\* write_table with the columns grouped by output, not by case
write_table_by_output(poss, cs, cols, tbl) ==
    [header |-> <<"dx", "dy">>
                \o Flat([j \in DOMAIN cols |-> [i \in DOMAIN cs |-> <<cs[i], cols[j]>>]]),
     rows |-> [p \in DOMAIN poss |->
                 <<poss[p][1], poss[p][2]>>
                 \o Flat([j \in DOMAIN cols |->
                            [i \in DOMAIN cs |->
                               IF <<poss[p], i, cols[j]>> \in tbl
                               THEN <<(<<poss[p], i, cols[j]>>)>> ELSE <<>>]])]]

write_table(poss, cs, cols, tbl) ==
    [header |-> <<"dx", "dy">>
                \o Flat([i \in DOMAIN cs |-> [j \in DOMAIN cols |-> <<cs[i], cols[j]>>]]),
     rows |-> [p \in DOMAIN poss |->
                 <<poss[p][1], poss[p][2]>>
                 \o Flat([i \in DOMAIN cs |->
                            [j \in DOMAIN cols |->
                               IF <<poss[p], i, cols[j]>> \in tbl
                               THEN <<(<<poss[p], i, cols[j]>>)>> ELSE <<>>]])]]

(***************************************************************************)
(* _positions_line, in units of 1e-9 and in exact arithmetic.  A result    *)
(* is [raised, out]: raised for the ValueError, out the list returned.     *)
(***************************************************************************)
Micro == 1000
LengthEps == 1

\* round(n / d, 6) for d > 0: the nearest multiple of 1e-6, ties to even
Round6(n, d) ==
    LET D == Micro * d
        q == n \div D
        r == n % D
    IN  Micro * (IF 2 * r < D THEN q
                 ELSE IF 2 * r > D THEN q + 1
                 ELSE IF q % 2 = 0 THEN q ELSE q + 1)

Abs(x) == IF x < 0 THEN -x ELSE x
Sq(v) == v[1] * v[1] + v[2] * v[2]

\* int(length / step) for step > 0, length the norm of d
IntRatio(d, step) ==
    CHOOSE n \in 0..((Abs(d[1]) + Abs(d[2])) \div step) :
        /\ n * n * step * step <= Sq(d)
        /\ (n + 1) * (n + 1) * step * step > Sq(d)

\* _positions_line without the lower limit of one interval
_positions_line_no_min(p0, p1, step) ==
    LET d == Sub(p1, p0)
        steps == IntRatio(d, step)
    IN  IF step <= 0 THEN [raised |-> TRUE, out |-> <<>>]
        ELSE IF Sq(d) <= LengthEps * LengthEps \/ steps = 0
        THEN [raised |-> FALSE, out |-> <<(<<Round6(p0[1], 1), Round6(p0[2], 1)>>)>>]
        ELSE [raised |-> FALSE,
              out |-> [i \in 1..(steps + 1) |->
                         <<Round6(p0[1] * steps + d[1] * (i - 1), steps),
                           Round6(p0[2] * steps + d[2] * (i - 1), steps)>>]]

\* _positions_line with the samples at i / (steps + 1) of the segment
_positions_line_open(p0, p1, step) ==
    LET d == Sub(p1, p0)
        steps == IF IntRatio(d, step) > 1 THEN IntRatio(d, step) ELSE 1
    IN  IF step <= 0 THEN [raised |-> TRUE, out |-> <<>>]
        ELSE IF Sq(d) <= LengthEps * LengthEps
        THEN [raised |-> FALSE, out |-> <<(<<Round6(p0[1], 1), Round6(p0[2], 1)>>)>>]
        ELSE [raised |-> FALSE,
              out |-> [i \in 1..(steps + 1) |->
                         <<Round6(p0[1] * (steps + 1) + d[1] * (i - 1), steps + 1),
                           Round6(p0[2] * (steps + 1) + d[2] * (i - 1), steps + 1)>>]]

\* _positions_line with the length tested before the step
_positions_line_length_first(p0, p1, step) ==
    LET d == Sub(p1, p0)
        steps == IF IntRatio(d, step) > 1 THEN IntRatio(d, step) ELSE 1
    IN  IF Sq(d) <= LengthEps * LengthEps
        THEN [raised |-> FALSE, out |-> <<(<<Round6(p0[1], 1), Round6(p0[2], 1)>>)>>]
        ELSE IF step <= 0 THEN [raised |-> TRUE, out |-> <<>>]
        ELSE [raised |-> FALSE,
              out |-> [i \in 1..(steps + 1) |->
                         <<Round6(p0[1] * steps + d[1] * (i - 1), steps),
                           Round6(p0[2] * steps + d[2] * (i - 1), steps)>>]]

_positions_line(p0, p1, step) ==
    LET d == Sub(p1, p0)
        steps == IF IntRatio(d, step) > 1 THEN IntRatio(d, step) ELSE 1
    IN  IF step <= 0 THEN [raised |-> TRUE, out |-> <<>>]
        ELSE IF Sq(d) <= LengthEps * LengthEps
        THEN [raised |-> FALSE, out |-> <<(<<Round6(p0[1], 1), Round6(p0[2], 1)>>)>>]
        ELSE [raised |-> FALSE,
              out |-> [i \in 1..(steps + 1) |->
                         <<Round6(p0[1] * steps + d[1] * (i - 1), steps),
                           Round6(p0[2] * steps + d[2] * (i - 1), steps)>>]]

(***************************************************************************)
(* _cases_from_mapping_all and _cases_from_mapping_pair.  A mapping is the *)
(* sequence of its items [name, vals] in insertion order, the names        *)
(* pairwise different; a case is a function from names to values.  A       *)
(* result is [raised, out]: raised for the ValueError, out the list.       *)
(***************************************************************************)
NoCase == [l \in {} |-> 0]
Names(mapping) == {mapping[l].name : l \in DOMAIN mapping}

\* [{name: v} for v in mapping[name]]
OneLabel(item) == [i \in DOMAIN item.vals |-> [l \in {item.name} |-> item.vals[i]]]

\* the loop of lines 150-157 over the items left, from the combos built so far
RECURSIVE Combos(_, _)
Combos(items, combos) ==
    IF items = <<>> THEN combos
    ELSE Combos(Tail(items),
                Flat([c \in DOMAIN combos |->
                        [v \in DOMAIN Head(items).vals |->
                           [l \in DOMAIN combos[c] \cup {Head(items).name} |->
                              IF l = Head(items).name THEN Head(items).vals[v]
                              ELSE combos[c][l]]]]))

\* range(n) with n the shortest list: case i takes the i-th value of every list
Zipped(mapping) ==
    LET n == CHOOSE k \in {Len(mapping[l].vals) : l \in DOMAIN mapping} :
               \A l \in DOMAIN mapping : k <= Len(mapping[l].vals)
    IN  [i \in 1..n |-> [name \in Names(mapping) |->
            LET l == CHOOSE x \in DOMAIN mapping : mapping[x].name = name
            IN  mapping[l].vals[i]]]

\* _cases_from_mapping_all pairing the lists by index
_cases_from_mapping_all_zipped(mapping) ==
    IF mapping = <<>> THEN [raised |-> FALSE, out |-> <<>>]
    ELSE IF Len(mapping) = 1 THEN [raised |-> FALSE, out |-> OneLabel(mapping[1])]
    ELSE [raised |-> FALSE, out |-> Zipped(mapping)]

_cases_from_mapping_all(mapping) ==
    IF mapping = <<>> THEN [raised |-> FALSE, out |-> <<>>]
    ELSE IF Len(mapping) = 1 THEN [raised |-> FALSE, out |-> OneLabel(mapping[1])]
    ELSE [raised |-> FALSE, out |-> Combos(mapping, <<NoCase>>)]

\* _cases_from_mapping_pair without the test of the counts
_cases_from_mapping_pair_unchecked(mapping) ==
    IF mapping = <<>> THEN [raised |-> FALSE, out |-> <<>>]
    ELSE IF Len(mapping) = 1 THEN [raised |-> FALSE, out |-> OneLabel(mapping[1])]
    ELSE [raised |-> FALSE, out |-> Zipped(mapping)]

_cases_from_mapping_pair(mapping) ==
    IF mapping = <<>> THEN [raised |-> FALSE, out |-> <<>>]
    ELSE IF Len(mapping) = 1 THEN [raised |-> FALSE, out |-> OneLabel(mapping[1])]
    ELSE IF Cardinality({Len(mapping[l].vals) : l \in DOMAIN mapping}) # 1
    THEN [raised |-> TRUE, out |-> <<>>]
    ELSE [raised |-> FALSE, out |-> Zipped(mapping)]

(***************************************************************************)
(* find_result_block.  A name is the sequence of its characters ("" is <<>>,*)
(* the name of a block whose Label and Name cannot be read); the result    *)
(* blocks are the sequence of their names, or unreadable; the block        *)
(* returned is its index in the collection, 0 for None.                    *)
(***************************************************************************)
\* str.lower()
LowerChar(ch) == CASE ch = "A" -> "a" [] ch = "B" -> "b" [] OTHER -> ch
Lower(name) == [i \in DOMAIN name |-> LowerChar(name[i])]

\* sub in name
Contains(sub, name) ==
    \E k \in 0..(Len(name) - Len(sub)) : SubSeq(name, k + 1, k + Len(sub)) = sub

\* the first index of names that satisfies Match, 0 if none does
FirstMatch(names, Match(_)) ==
    IF \E i \in DOMAIN names : Match(names[i])
    THEN CHOOSE i \in DOMAIN names :
           Match(names[i]) /\ \A j \in 1..(i - 1) : ~Match(names[j])
    ELSE 0

\* find_result_block with one pass that accepts either match
find_result_block_one_pass(blocks, label, contains_ok) ==
    LET Either(name) == \/ Lower(name) = Lower(label)
                        \/ contains_ok /\ Contains(Lower(label), Lower(name))
    IN  IF ~blocks.readable THEN 0 ELSE FirstMatch(blocks.names, Either)

find_result_block(blocks, label, contains_ok) ==
    LET Exact(name) == Lower(name) = Lower(label)
        Within(name) == Contains(Lower(label), Lower(name))
    IN  IF ~blocks.readable THEN 0
        ELSE IF FirstMatch(blocks.names, Exact) # 0 THEN FirstMatch(blocks.names, Exact)
        ELSE IF contains_ok THEN FirstMatch(blocks.names, Within)
        ELSE 0

(***************************************************************************)
(* move_blocks_in_rect.  Each of its two paths (Blocks.InRectangle, then   *)
(* Selection.InRectangle) has one of four outcomes in the engine:          *)
(*   "nosel"    no InRectangle form returned a selection                   *)
(*   "moved"    Count was read and a Move form completed                   *)
(*   "nocount"  Count could not be read and a Move form completed          *)
(*   "nomove"   every Move form raised                                     *)
(* The result is the count the code returns and the blocks displaced.      *)
(***************************************************************************)
RegionOutcomes == {"nosel", "moved", "nocount", "nomove"}

RegionPath(g, r, o) ==
    LET sel == BlocksInRect(g, r)
        count == IF o = "nocount" THEN -1 ELSE Cardinality(sel)
    IN  IF o = "nosel" \/ count = 0 \/ o = "nomove"
        THEN [moved |-> 0, blocks |-> {}]
        ELSE [moved |-> IF count # -1 THEN count ELSE 1, blocks |-> sel]

move_blocks_in_rect(g, rect, o1, o2) ==
    LET p1 == RegionPath(g, rect, o1)
    IN  IF p1.moved # 0 THEN p1 ELSE RegionPath(g, rect, o2)

\* the helpers _move_by_xy calls, in order (lines 368-377): the region move,
\* then in the fallback one move_vertex per collected vertex and, when a vertex
\* moved, move_block_labels
MoveCalls(fallback, moved) ==
    <<"move_blocks_in_rect">>
        \o (IF fallback
            THEN [i \in 1..Cardinality(MovingVerts) |-> "move_vertex"]
                     \o (IF moved > 0 THEN <<"move_block_labels">> ELSE <<>>)
            ELSE <<>>)

\* _move_by_xy with the tracking updated before the moved == 0 test
_move_by_xy_early(d, rect_now, c, g, o1, o2, S) ==
    IF d = Zero
    THEN [ok |-> TRUE, rect |-> rect_now, cur |-> c, geom |-> g,
          region |-> {}, calls |-> <<>>]
    ELSE LET region == move_blocks_in_rect(g, rect_now, o1, o2)
             g1 == Displace(g, VertsOf(region.blocks), d)
             fallback == region.moved = 0 /\ MovingVerts # {}
             g2 == IF fallback THEN Displace(g1, S \cap MovingVerts, d) ELSE g1
             moved == IF fallback THEN Cardinality(S \cap MovingVerts) ELSE region.moved
         IN  [ok |-> moved # 0, rect |-> Translate(rect_now, d),
              cur |-> Add(c, d), geom |-> g2, region |-> region.blocks,
              calls |-> MoveCalls(fallback, moved)]

\* _move_by_xy without the test of a zero delta
_move_by_xy_no_shortcut(d, rect_now, c, g, o1, o2, S) ==
    IF FALSE
    THEN [ok |-> TRUE, rect |-> rect_now, cur |-> c, geom |-> g,
          region |-> {}, calls |-> <<>>]
    ELSE LET region == move_blocks_in_rect(g, rect_now, o1, o2)
             g1 == Displace(g, VertsOf(region.blocks), d)
             fallback == region.moved = 0 /\ MovingVerts # {}
             g2 == IF fallback THEN Displace(g1, S \cap MovingVerts, d) ELSE g1
             moved == IF fallback THEN Cardinality(S \cap MovingVerts) ELSE region.moved
         IN  IF moved = 0
             THEN [ok |-> FALSE, rect |-> rect_now, cur |-> c, geom |-> g2,
                   region |-> region.blocks, calls |-> MoveCalls(fallback, moved)]
             ELSE [ok |-> TRUE, rect |-> Translate(rect_now, d),
                   cur |-> Add(c, d), geom |-> g2,
                   region |-> region.blocks, calls |-> MoveCalls(fallback, moved)]

(***************************************************************************)
(* _move_by_xy(dx, dy, rect_now, cur_x, cur_y) on engine geometry g.       *)
(* o1, o2: outcomes of the two region paths; S: the vertices on which      *)
(* move_vertex found a call form that completes.                           *)
(***************************************************************************)
\* the engine behaviours explored at a move: both region paths behave alike,
\* or the first path fails and the second completes
MoveOutcomes ==
    {<<o, o, S>> : o \in RegionOutcomes, S \in SUBSET MovingVerts}
        \cup {<<"nosel", "moved", MovingVerts>>, <<"nomove", "nocount", MovingVerts>>}

\* 0 when every engine call of the move behaves, 1 otherwise
MoveCost(d, o) == IF d = Zero \/ o = <<"moved", "moved", MovingVerts>> THEN 0 ELSE 1

\* _move_by_xy running the per-vertex moves after every region move
_move_by_xy_both(d, rect_now, c, g, o1, o2, S) ==
    IF d = Zero
    THEN [ok |-> TRUE, rect |-> rect_now, cur |-> c, geom |-> g,
          region |-> {}, calls |-> <<>>]
    ELSE LET region == move_blocks_in_rect(g, rect_now, o1, o2)
             g1 == Displace(g, VertsOf(region.blocks), d)
             fallback == MovingVerts # {}
             g2 == IF fallback THEN Displace(g1, S \cap MovingVerts, d) ELSE g1
             moved == region.moved + (IF fallback THEN Cardinality(S \cap MovingVerts)
                                      ELSE 0)
         IN  IF moved = 0
             THEN [ok |-> FALSE, rect |-> rect_now, cur |-> c, geom |-> g2,
                   region |-> region.blocks, calls |-> MoveCalls(fallback, moved)]
             ELSE [ok |-> TRUE, rect |-> Translate(rect_now, d),
                   cur |-> Add(c, d), geom |-> g2,
                   region |-> region.blocks, calls |-> MoveCalls(fallback, moved)]

_move_by_xy(d, rect_now, c, g, o1, o2, S) ==
    IF d = Zero
    THEN [ok |-> TRUE, rect |-> rect_now, cur |-> c, geom |-> g,
          region |-> {}, calls |-> <<>>]
    ELSE LET region == move_blocks_in_rect(g, rect_now, o1, o2)
             g1 == Displace(g, VertsOf(region.blocks), d)
             fallback == region.moved = 0 /\ MovingVerts # {}
             g2 == IF fallback THEN Displace(g1, S \cap MovingVerts, d) ELSE g1
             moved == IF fallback THEN Cardinality(S \cap MovingVerts) ELSE region.moved
         IN  IF moved = 0
             THEN [ok |-> FALSE, rect |-> rect_now, cur |-> c, geom |-> g2,
                   region |-> region.blocks, calls |-> MoveCalls(fallback, moved)]
             ELSE [ok |-> TRUE, rect |-> Translate(rect_now, d),
                   cur |-> Add(c, d), geom |-> g2,
                   region |-> region.blocks, calls |-> MoveCalls(fallback, moved)]

(***************************************************************************)
(* _ensure_full_mesh(model, qf, problem, force_remesh): b1, b2 tell        *)
(* whether the first and the second build_mesh call find a call shape that *)
(* completes.                                                              *)
(***************************************************************************)
\* the outcomes explored for a build_mesh call: none to choose when no mesh is built
MeshOutcomes(meshing) == IF meshing THEN BOOLEAN ELSE {TRUE}

MeshCost(b1, b2) == IF b1 /\ b2 THEN 0 ELSE 1

_ensure_full_mesh(force_remesh, b1, b2) ==
    IF force_remesh THEN b1
    ELSE IF b1 THEN TRUE
    ELSE b2

(***************************************************************************)
(* cmd_model from the first action of the plan on.  An action of the plan  *)
(* carries its type, whether its labels (or rect) are given, and what the  *)
(* engine makes of it: "moved" (something found and moved), "unmoved"      *)
(* (found, nothing moved), "none" (nothing found), "raised".  The value is *)
(* the return code with the log of the actions started, the geometry       *)
(* rebuilds and the save, in order.                                        *)
(***************************************************************************)
ActionCode(a) ==
    CASE a.type = "move_shape" ->
           IF ~a.given THEN 3
           ELSE IF a.res = "none" THEN 4
           ELSE IF a.res = "unmoved" THEN 5 ELSE 0
      [] a.type = "move_vertices" ->
           IF ~a.given THEN 3
           ELSE IF a.res = "raised" THEN 5
           ELSE IF a.res = "none" THEN 6 ELSE 0
      [] a.type = "move_block_labels" ->
           IF ~a.given THEN 3
           ELSE IF a.res \in {"none", "unmoved"} THEN 6 ELSE 0
      [] a.type \in {"move_vertices_by_block_label", "move_vertices_in_rect",
                     "move_blocks_in_rect"} ->
           IF ~a.given THEN 3
           ELSE IF a.res = "none" THEN 6 ELSE 0
      [] a.type = "add_rect_with_block_label" ->
           IF a.res = "moved" THEN 0 ELSE 6
      [] OTHER -> 7

ActionEvent(idx) == [ev |-> "action", idx |-> idx]
RebuildEvent == [ev |-> "rebuild_model", idx |-> 0]
SaveEvent == [ev |-> "save_model", idx |-> 0]

\* for idx, action in enumerate(actions, start=1)
RECURSIVE RunActions(_, _, _)
RunActions(actions, idx, rebuild_each) ==
    IF idx > Len(actions) THEN [rc |-> 0, log |-> <<>>]
    ELSE LET code == ActionCode(actions[idx])
             rest == RunActions(actions, idx + 1, rebuild_each)
         IN  IF code # 0 THEN [rc |-> code, log |-> <<ActionEvent(idx)>>]
             ELSE [rc |-> rest.rc,
                   log |-> <<ActionEvent(idx)>>
                             \o (IF rebuild_each THEN <<RebuildEvent>> ELSE <<>>)
                             \o rest.log]

\* cmd_model rebuilding and saving after an action failed as well
cmd_model_finishing(actions, rebuild_each, rebuild_end, save) ==
    LET run == RunActions(actions, 1, rebuild_each)
    IN  [rc |-> IF run.rc # 0 THEN run.rc ELSE IF save = "failed" THEN 8 ELSE 0,
         log |-> run.log \o (IF rebuild_end THEN <<RebuildEvent>> ELSE <<>>)
                         \o (IF save # "no" THEN <<SaveEvent>> ELSE <<>>)]

\* save: "no" (no save_as), "ok" or "failed" (save_model returns False)
cmd_model(actions, rebuild_each, rebuild_end, save) ==
    LET run == RunActions(actions, 1, rebuild_each)
    IN  IF run.rc # 0 THEN run
        ELSE [rc |-> IF save = "failed" THEN 8 ELSE 0,
              log |-> run.log \o (IF rebuild_end THEN <<RebuildEvent>> ELSE <<>>)
                              \o (IF save # "no" THEN <<SaveEvent>> ELSE <<>>)]

(***************************************************************************)
(* build_mesh, remove_mesh and _ensure_full_mesh with the engine calls     *)
(* they issue, in order.  A mesh target tells whether model.Shapes can be  *)
(* read (shapes) and which call shapes complete on it (ok).                *)
(***************************************************************************)
BuildShapes == <<"BuildMesh(True,False)", "BuildMesh(True)", "BuildMesh()">>
OnShapes(names) == [i \in DOMAIN names |-> "Shapes." \o names[i]]
OnModel(names) == [i \in DOMAIN names |-> "Model." \o names[i]]

\* for args in ...: the call shapes attempted up to the first that completes
Attempt(t, shapes) ==
    LET k == FirstOk(t, shapes)
    IN  IF k = 0 THEN [ok |-> FALSE, calls |-> shapes]
        ELSE [ok |-> TRUE, calls |-> SubSeq(shapes, 1, k)]

build_mesh(t) ==
    LET a == IF t.shapes THEN Attempt(t, OnShapes(BuildShapes))
             ELSE [ok |-> FALSE, calls |-> <<>>]
        b == Attempt(t, OnModel(BuildShapes))
    IN  IF a.ok THEN [name |-> "build_mesh", ok |-> TRUE, calls |-> a.calls]
        ELSE [name |-> "build_mesh", ok |-> b.ok, calls |-> a.calls \o b.calls]

remove_mesh(t) ==
    LET a == IF t.shapes THEN Attempt(t, <<"Shapes.RemoveMesh()">>)
             ELSE [ok |-> FALSE, calls |-> <<>>]
        b == Attempt(t, <<"Model.RemoveMesh()">>)
    IN  IF a.ok THEN [name |-> "remove_mesh", ok |-> TRUE, calls |-> a.calls]
        ELSE [name |-> "remove_mesh", ok |-> b.ok, calls |-> a.calls \o b.calls]

\* _ensure_full_mesh building a third time when the second build fails
_ensure_full_mesh_again(force_remesh, t1, t2) ==
    LET b1 == build_mesh(t1)
        b2 == build_mesh(t2)
    IN  IF force_remesh
        THEN [ok |-> b1.ok, calls |-> <<remove_mesh(t1), b1>>]
        ELSE IF b1.ok THEN [ok |-> TRUE, calls |-> <<b1>>]
        ELSE IF b2.ok THEN [ok |-> TRUE, calls |-> <<b1, remove_mesh(t1), b2>>]
        ELSE [ok |-> FALSE, calls |-> <<b1, remove_mesh(t1), b2, b2>>]

\* t1, t2: the model as the first and as the second build_mesh call finds it
_ensure_full_mesh_calls(force_remesh, t1, t2) ==
    LET b1 == build_mesh(t1)
        b2 == build_mesh(t2)
    IN  IF force_remesh
        THEN [ok |-> b1.ok, calls |-> <<remove_mesh(t1), b1>>]
        ELSE IF b1.ok THEN [ok |-> TRUE, calls |-> <<b1>>]
        ELSE [ok |-> b2.ok, calls |-> <<b1, remove_mesh(t1), b2>>]

(***************************************************************************)
(* solve_problem(problem, model) with model given: s1 and s2 are the       *)
(* outcomes of the first solve call and of the retry: "ok", "transient"    *)
(* (message with 'has no mesh' and 'air') or "other".                      *)
(***************************************************************************)
SolveOutcomes == {"ok", "transient", "other"}

SolveCost(s1, s2) == IF s1 = "ok" /\ s2 = "ok" THEN 0 ELSE 1

solve_problem(s1, s2) ==
    IF s1 = "ok" THEN TRUE
    ELSE IF s1 = "transient"
         THEN (IF s2 = "ok" THEN TRUE
               ELSE IF s2 = "transient" THEN TRUE
               ELSE FALSE)
         ELSE FALSE

(***************************************************************************)
(* solve_problem(problem, model) with the engine calls it issues, in       *)
(* order.  has_model: model is not None; s1, s2 as above; b: build_mesh    *)
(* finds a call shape that completes (the code ignores it); busy: the      *)
(* number of polls at which IsBusy would read true (or is not exposed)     *)
(* before the first poll at which it reads false or raises; an: how        *)
(* AnalyzeResults behaves, "absent", "ok" or "raise".                      *)
(***************************************************************************)
PollLimit == 600

Polls(n) == [i \in 1..n |-> "IsBusy"]

\* lines 103-118: the busy wait and the analysis
WaitAndAnalyze(busy, an) ==
    Polls(IF busy >= PollLimit THEN PollLimit ELSE busy + 1)
        \o (IF an = "absent" THEN <<>> ELSE <<"AnalyzeResults">>)

\* solve_problem retrying after any failure of the first call
solve_problem_retry_any(has_model, s1, b, s2, busy, an) ==
    IF s1 = "ok"
    THEN [ok |-> TRUE, warned |-> FALSE,
          calls |-> <<"Solve">> \o WaitAndAnalyze(busy, an)]
    ELSE IF has_model
         THEN [ok |-> s2 # "other", warned |-> s2 = "transient",
               calls |-> <<"Solve", "build_mesh", "Solve">>]
         ELSE [ok |-> s1 = "transient", warned |-> s1 = "transient",
               calls |-> <<"Solve">>]

\* solve_problem failing when the retry fails with the transient class
solve_problem_retry_fatal(has_model, s1, b, s2, busy, an) ==
    IF s1 = "ok"
    THEN [ok |-> TRUE, warned |-> FALSE,
          calls |-> <<"Solve">> \o WaitAndAnalyze(busy, an)]
    ELSE IF s1 = "transient"
         THEN IF has_model
              THEN [ok |-> s2 = "ok", warned |-> FALSE,
                    calls |-> <<"Solve", "build_mesh", "Solve">>]
              ELSE [ok |-> TRUE, warned |-> TRUE, calls |-> <<"Solve">>]
         ELSE [ok |-> FALSE, warned |-> FALSE, calls |-> <<"Solve">>]

\* solve_problem polling until IsBusy reads false, without the limit
solve_problem_no_limit(has_model, s1, b, s2, busy, an) ==
    IF s1 = "ok"
    THEN [ok |-> TRUE, warned |-> FALSE,
          calls |-> <<"Solve">> \o Polls(busy + 1)
                      \o (IF an = "absent" THEN <<>> ELSE <<"AnalyzeResults">>)]
    ELSE IF s1 = "transient"
         THEN IF has_model
              THEN [ok |-> s2 # "other", warned |-> s2 = "transient",
                    calls |-> <<"Solve", "build_mesh", "Solve">>]
              ELSE [ok |-> TRUE, warned |-> TRUE, calls |-> <<"Solve">>]
         ELSE [ok |-> FALSE, warned |-> FALSE, calls |-> <<"Solve">>]

solve_problem_calls(has_model, s1, b, s2, busy, an) ==
    IF s1 = "ok"
    THEN [ok |-> TRUE, warned |-> FALSE,
          calls |-> <<"Solve">> \o WaitAndAnalyze(busy, an)]
    ELSE IF s1 = "transient"
         THEN IF has_model
              THEN IF s2 = "ok"
                   THEN [ok |-> TRUE, warned |-> FALSE,
                         calls |-> <<"Solve", "build_mesh", "Solve">>]
                   ELSE IF s2 = "transient"
                        THEN [ok |-> TRUE, warned |-> TRUE,
                              calls |-> <<"Solve", "build_mesh", "Solve">>]
                        ELSE [ok |-> FALSE, warned |-> FALSE,
                              calls |-> <<"Solve", "build_mesh", "Solve">>]
              ELSE [ok |-> TRUE, warned |-> TRUE, calls |-> <<"Solve">>]
         ELSE [ok |-> FALSE, warned |-> FALSE, calls |-> <<"Solve">>]

(***************************************************************************)
(* set_label_field(problem, [name], field_name, val): the engine holds,    *)
(* for every label, the value of the field and the number of times the     *)
(* field was written.                                                      *)
(***************************************************************************)
set_label_field(f, name, val) ==
    [val |-> [f.val EXCEPT ![name] = val], n |-> [f.n EXCEPT ![name] = @ + 1]]

\* for name, val in case.items(): set_label_field(...)
RECURSIVE ApplyFields(_, _, _)
ApplyFields(f, case, names) ==
    IF names = {} THEN f
    ELSE LET name == CHOOSE x \in names : TRUE
         IN  ApplyFields(set_label_field(f, name, case[name]), case, names \ {name})

(***************************************************************************)
(* State.                                                                  *)
(***************************************************************************)
VARIABLES
    move_labels,   \* argument: labels of the moving blocks
    cases,         \* argument: sequence of cases
    positions,     \* argument: sequence of positions
    integrals,     \* argument: names of the selected outputs
    mesh,          \* argument
    remesh,        \* argument
    mesh_once,     \* argument
    pc,            \* where the worker is in run_batch_force_plan
    idx,           \* index of the current case (enumerate(cases, start=1))
    pos_i,         \* index of the current position
    base_rect,     \* union of the moving blocks' bounds, taken once
    rect,          \* the tracked rect
    cur,           \* <<cur_x, cur_y>>
    cancelled,     \* local flag: the cancel event was observed
    ret,           \* code of a return statement pending in the try block, 0 if none
    rc,            \* the value returned (meaningful once pc = "done")
    table,         \* recorded cells <<position, case index, column>>
    table_written, \* the table was saved or logged
    cancel,        \* the cancel event shared with the GUI
    geom,          \* engine: displacement of every vertex since the sweep started
    fields,        \* engine: field value and number of writes of every label
    failedAt,      \* history: the step that failed, "none" if none
    exitCur,       \* history: cur when the current case's try body was left
    retMoves,      \* history: deltas of the return moves attempted in this case
    warned,        \* history: a restoration warning was emitted
    posOps,        \* history: number of position steps (move, mesh, solve, extract) started
    lastOk,        \* history: what the last _move_by_xy call reported
    okSum,         \* history: sum of the deltas of the calls that reported success in this case
    stepsOk,       \* history: the steps of the current position that completed
    startFail,     \* history: what made the setup return, "none" if nothing did
    faults,        \* number of engine operations that misbehaved so far
    call,          \* a helper applied on its own: its name and inputs
    returned,      \* what that helper returned and the engine calls it issued
    ui             \* GUI: the UI thread is "idle", "loading" the labels, or idle with them "loaded"

args == <<move_labels, cases, positions, integrals, mesh, remesh, mesh_once>>
locals == <<pc, idx, pos_i, base_rect, rect, cur, cancelled, ret, rc, table, table_written>>
engine == <<geom, fields>>
history == <<failedAt, exitCur, retMoves, warned, posOps, lastOk, okSum, stepsOk, startFail>>
unit == <<call, returned>>
Budget(cost) == faults + cost <= MaxFaults /\ faults' = faults + cost
vars == <<args, locals, engine, history, cancel, faults, unit, ui>>

NoWrites == [val |-> [l \in FieldLabels |-> 0], n |-> [l \in FieldLabels |-> 0]]

\* the locals, the engine and the history when run_batch_force_plan is entered
Entry ==
    /\ pc = "start"
    /\ idx = 1
    /\ pos_i = 1
    /\ base_rect = <<0, 0, 0, 0>>
    /\ rect = <<0, 0, 0, 0>>
    /\ cur = Zero
    /\ cancelled = FALSE
    /\ ret = 0
    /\ rc = 0
    /\ table = {}
    /\ table_written = FALSE
    /\ cancel = FALSE
    /\ geom = [v \in Verts |-> Zero]
    /\ fields = NoWrites
    /\ failedAt = "none"
    /\ exitCur = Zero
    /\ retMoves = <<>>
    /\ warned = FALSE
    /\ posOps = 0
    /\ lastOk = TRUE
    /\ okSum = Zero
    /\ stepsOk = {}
    /\ startFail = "none"
    /\ faults = 0

Init ==
    /\ move_labels \in {<<>>, MoveLabels}
    /\ cases \in CaseLists
    /\ positions \in PositionLists
    /\ integrals \in {<<>>, Integrals}
    /\ \E f \in FlagChoices : mesh = f[1] /\ remesh = f[2] /\ mesh_once = f[3]
    /\ Entry
    /\ call = [fn |-> "run_batch_force_plan"]
    /\ returned = <<>>
    /\ ui = "idle"

\* mesh_once_effective (lines 353-356)
mesh_once_effective == IF mesh /\ mesh_once THEN FALSE ELSE mesh_once

\* a return statement outside the try block
Return(code) == pc' = "done" /\ rc' = code

\* a return statement inside the try block: the finally block runs first
Fail(code, c) ==
    /\ ret' = code
    /\ pc' = "finally"
    /\ exitCur' = c

\* history: the engine step named step failed (failed = TRUE) or completed
Outcome(step, failed) == failedAt' = IF failed THEN step ELSE failedAt

(***************************************************************************)
(* run_batch_force_plan, lines 300-356: input checks, connection, model,   *)
(* block lookup, bounds, base_rect.                                        *)
(***************************************************************************)
StartOutcomes == {"ok", "noproblem", "nomodel", "noblock", "nobounds"}

Start ==
    /\ pc = "start"
    /\ \E o \in StartOutcomes :
         IF move_labels = <<>> THEN Return(RC_NO_LABELS) /\ startFail' = "labels" /\ UNCHANGED base_rect
         ELSE IF cases = <<>> THEN Return(RC_NO_CASES) /\ startFail' = "cases" /\ UNCHANGED base_rect
         ELSE IF positions = <<>> THEN Return(RC_NO_POSITIONS) /\ startFail' = "positions" /\ UNCHANGED base_rect
         ELSE IF integrals = <<>> THEN Return(RC_NO_OUTPUTS) /\ startFail' = "outputs" /\ UNCHANGED base_rect
         ELSE IF o = "noproblem" THEN Return(RC_NO_PROBLEM) /\ startFail' = "problem" /\ UNCHANGED base_rect
         ELSE IF o = "nomodel" THEN Return(RC_NO_MODEL) /\ startFail' = "model" /\ UNCHANGED base_rect
         ELSE IF o = "noblock" THEN Return(RC_NO_BLOCK) /\ startFail' = "block" /\ UNCHANGED base_rect
         ELSE IF o = "nobounds" THEN Return(RC_NO_BOUNDS) /\ startFail' = "bounds" /\ UNCHANGED base_rect
         ELSE /\ base_rect' = UnionBounds({BlockBounds(geom, move_labels[i]) :
                                            i \in 1..Len(move_labels)})
              /\ pc' = "case_check"
              /\ rc' = rc
              /\ startFail' = startFail
    /\ UNCHANGED <<ui, unit, args, idx, pos_i, rect, cur, cancelled, ret, table, table_written,
                   engine, failedAt, exitCur, retMoves, warned, posOps, lastOk, okSum,
                   stepsOk, cancel, faults>>

(***************************************************************************)
(* Lines 391-394: the head of the case loop.                               *)
(***************************************************************************)
CaseCheck ==
    /\ pc = "case_check"
    /\ IF idx > Len(cases)
       THEN pc' = "finish" /\ UNCHANGED cancelled
       ELSE IF cancel
            THEN cancelled' = TRUE /\ pc' = "finish"
            ELSE pc' = "apply" /\ UNCHANGED cancelled
    /\ UNCHANGED <<ui, unit, args, idx, pos_i, base_rect, rect, cur, ret, rc, table,
                   table_written, engine, history, cancel, faults>>

\* ApplyCase with the tracked rect read again from the blocks' bounds
ApplyCase_rereads_bounds ==
    /\ pc = "apply"
    /\ fields' = ApplyFields(fields, cases[idx], DOMAIN cases[idx])
    /\ rect' = UnionBounds({BlockBounds(geom, move_labels[i]) : i \in 1..Len(move_labels)})
    /\ cur' = Zero
    /\ pc' = "start_move"
    /\ exitCur' = Zero
    /\ retMoves' = <<>>
    /\ okSum' = Zero
    /\ stepsOk' = {}
    /\ UNCHANGED <<ui, unit, args, startFail, idx, pos_i, base_rect, cancelled, ret, rc, table,
                   table_written, geom, failedAt, warned, posOps, lastOk, cancel,
                   faults>>

\* ApplyCase with the field values applied for the first case only
ApplyCase_first_only ==
    /\ pc = "apply"
    /\ fields' = IF idx = 1 THEN ApplyFields(fields, cases[idx], DOMAIN cases[idx])
                 ELSE fields
    /\ rect' = base_rect
    /\ cur' = Zero
    /\ pc' = "start_move"
    /\ exitCur' = Zero
    /\ retMoves' = <<>>
    /\ okSum' = Zero
    /\ stepsOk' = {}
    /\ UNCHANGED <<ui, unit, args, startFail, idx, pos_i, base_rect, cancelled, ret, rc, table,
                   table_written, geom, failedAt, warned, posOps, lastOk, cancel,
                   faults>>

(***************************************************************************)
(* Lines 395-400: the case's field values are applied, the tracking is     *)
(* reset.                                                                  *)
(***************************************************************************)
ApplyCase ==
    /\ pc = "apply"
    /\ fields' = ApplyFields(fields, cases[idx], DOMAIN cases[idx])
    /\ rect' = base_rect
    /\ cur' = Zero
    /\ pc' = "start_move"
    /\ exitCur' = Zero
    /\ retMoves' = <<>>
    /\ okSum' = Zero
    /\ stepsOk' = {}
    /\ UNCHANGED <<ui, unit, args, startFail, idx, pos_i, base_rect, cancelled, ret, rc, table,
                   table_written, geom, failedAt, warned, posOps, lastOk, cancel,
                   faults>>

(***************************************************************************)
(* A call of _move_by_xy by delta d from the try block, with the engine's  *)
(* outcomes o1, o2, S; m is what the call returns.                         *)
(***************************************************************************)
MoveCall(d, m) ==
    /\ geom' = m.geom
    /\ rect' = m.rect
    /\ cur' = m.cur
    /\ lastOk' = m.ok
    /\ okSum' = IF m.ok THEN Add(okSum, d) ELSE okSum

(***************************************************************************)
(* Lines 402-410: move to the start position; the mesh-once build.         *)
(***************************************************************************)
StartMove ==
    /\ pc = "start_move"
    /\ \E o \in MoveOutcomes :
         LET d == Sub(positions[1], cur)
             m == _move_by_xy(d, rect, cur, geom, o[1], o[2], o[3])
             meshing == m.ok /\ mesh_once_effective /\ mesh
         IN  \E b1 \in MeshOutcomes(meshing), b2 \in MeshOutcomes(meshing) :
             LET meshed == _ensure_full_mesh(remesh, b1, b2) IN
             /\ Budget(MoveCost(d, o) + MeshCost(b1, b2))
             /\ MoveCall(d, m)
             /\ Outcome(IF m.ok THEN "mesh" ELSE "move", ~m.ok \/ (meshing /\ ~meshed))
             /\ IF ~m.ok
                THEN Fail(RC_MOVE, m.cur)
                ELSE IF mesh_once_effective /\ mesh /\ ~meshed
                     THEN Fail(RC_MESH, m.cur)
                     ELSE pc' = "pos_check" /\ UNCHANGED <<ret, exitCur>>
    /\ pos_i' = 1
    /\ UNCHANGED <<ui, unit, args, startFail, stepsOk, idx, base_rect, cancelled, rc, table, table_written,
                   fields, retMoves, warned, posOps, cancel>>

\* PosCheck without the cancel test
PosCheck_no_cancel ==
    /\ pc = "pos_check"
    /\ IF pos_i > Len(positions)
       THEN pc' = "finally" /\ exitCur' = cur /\ UNCHANGED stepsOk
       ELSE pc' = "pos_move" /\ stepsOk' = {} /\ UNCHANGED exitCur
    /\ UNCHANGED <<ui, unit, args, startFail, idx, pos_i, base_rect, rect, cur, cancelled, ret, rc, table,
                   table_written, engine, failedAt, retMoves, warned,
                   posOps, lastOk, okSum, cancel, faults>>

(***************************************************************************)
(* Lines 412-415: the head of the position loop.                           *)
(***************************************************************************)
PosCheck ==
    /\ pc = "pos_check"
    /\ IF pos_i > Len(positions)
       THEN pc' = "finally" /\ exitCur' = cur /\ UNCHANGED <<cancelled, stepsOk>>
       ELSE IF cancel
            THEN /\ cancelled' = TRUE /\ pc' = "finally" /\ exitCur' = cur
                 /\ UNCHANGED stepsOk
            ELSE pc' = "pos_move" /\ stepsOk' = {} /\ UNCHANGED <<cancelled, exitCur>>
    /\ UNCHANGED <<ui, unit, args, startFail, idx, pos_i, base_rect, rect, cur, ret, rc, table,
                   table_written, engine, failedAt, retMoves, warned,
                   posOps, lastOk, okSum, cancel, faults>>

(***************************************************************************)
(* Lines 416-419: the incremental move to the position.                    *)
(***************************************************************************)
PosMove ==
    /\ pc = "pos_move"
    /\ \E o \in MoveOutcomes :
         LET d == Sub(positions[pos_i], cur)
             m == _move_by_xy(d, rect, cur, geom, o[1], o[2], o[3])
         IN  /\ Budget(MoveCost(d, o))
             /\ MoveCall(d, m)
             /\ Outcome("move", ~m.ok)
             /\ stepsOk' = IF m.ok THEN stepsOk \cup {"move"} ELSE stepsOk
             /\ IF ~m.ok
                THEN Fail(RC_MOVE, m.cur)
                ELSE pc' = "mesh" /\ UNCHANGED <<ret, exitCur>>
    /\ posOps' = posOps + 1
    /\ UNCHANGED <<ui, unit, args, startFail, idx, pos_i, base_rect, cancelled, rc, table, table_written,
                   fields, retMoves, warned, cancel>>

\* Mesh going on to the solve after a failed mesh build
Mesh_ignores_failure ==
    /\ pc = "mesh"
    /\ IF ~mesh_once_effective /\ mesh
       THEN /\ posOps' = posOps + 1
            /\ \E b1 \in BOOLEAN, b2 \in BOOLEAN :
                 LET meshed == _ensure_full_mesh(remesh, b1, b2)
                 IN  /\ Budget(MeshCost(b1, b2))
                     /\ Outcome("mesh", ~meshed)
                     /\ stepsOk' = IF meshed THEN stepsOk \cup {"mesh"} ELSE stepsOk
                     /\ pc' = "solve" /\ UNCHANGED <<ret, exitCur>>
       ELSE pc' = "solve" /\ UNCHANGED <<ret, failedAt, exitCur, posOps, stepsOk, faults>>
    /\ UNCHANGED <<ui, unit, args, startFail, idx, pos_i, base_rect, rect, cur, cancelled, rc, table,
                   table_written, engine, retMoves, warned, lastOk,
                   okSum, cancel>>

(***************************************************************************)
(* Lines 421-424: the per-position mesh build.                             *)
(***************************************************************************)
Mesh ==
    /\ pc = "mesh"
    /\ IF ~mesh_once_effective /\ mesh
       THEN /\ posOps' = posOps + 1
            /\ \E b1 \in BOOLEAN, b2 \in BOOLEAN :
                 LET meshed == _ensure_full_mesh(remesh, b1, b2)
                 IN  /\ Budget(MeshCost(b1, b2))
                     /\ Outcome("mesh", ~meshed)
                     /\ stepsOk' = IF meshed THEN stepsOk \cup {"mesh"} ELSE stepsOk
                     /\ IF meshed
                        THEN pc' = "solve" /\ UNCHANGED <<ret, exitCur>>
                        ELSE Fail(RC_MESH, cur)
       ELSE pc' = "solve" /\ UNCHANGED <<ret, failedAt, exitCur, posOps, stepsOk, faults>>
    /\ UNCHANGED <<ui, unit, args, startFail, idx, pos_i, base_rect, rect, cur, cancelled, rc, table,
                   table_written, engine, retMoves, warned, lastOk,
                   okSum, cancel>>

\* Solve going on to the extraction after a failed solve
Solve_ignores_failure ==
    /\ pc = "solve"
    /\ \E s1 \in SolveOutcomes, s2 \in SolveOutcomes :
         /\ Budget(SolveCost(s1, s2))
         /\ Outcome("solve", ~solve_problem(s1, s2))
         /\ stepsOk' = IF solve_problem(s1, s2) THEN stepsOk \cup {"solve"} ELSE stepsOk
    /\ pc' = "result"
    /\ posOps' = posOps + 1
    /\ UNCHANGED <<ui, unit, args, startFail, idx, pos_i, base_rect, rect, cur, cancelled, ret, exitCur,
                   rc, table, table_written, engine, retMoves, warned, lastOk,
                   okSum, cancel>>

\* Solve with a cancel test of its own before the solve call
Solve_checks_cancel ==
    /\ pc = "solve"
    /\ IF cancel
       THEN /\ cancelled' = TRUE /\ pc' = "finally" /\ exitCur' = cur
            /\ UNCHANGED <<ret, failedAt, posOps, stepsOk, faults>>
       ELSE /\ \E s1 \in SolveOutcomes, s2 \in SolveOutcomes :
                 LET solved == solve_problem(s1, s2)
                 IN  /\ Budget(SolveCost(s1, s2))
                     /\ Outcome("solve", ~solved)
                     /\ stepsOk' = IF solved THEN stepsOk \cup {"solve"} ELSE stepsOk
                     /\ IF solved
                        THEN pc' = "result" /\ UNCHANGED <<ret, exitCur>>
                        ELSE Fail(RC_SOLVE, cur)
            /\ posOps' = posOps + 1
            /\ UNCHANGED cancelled
    /\ UNCHANGED <<ui, unit, args, startFail, idx, pos_i, base_rect, rect, cur, rc, table,
                   table_written, engine, retMoves, warned, lastOk,
                   okSum, cancel>>

(***************************************************************************)
(* Lines 426-428: the solve.                                               *)
(***************************************************************************)
Solve ==
    /\ pc = "solve"
    /\ \E s1 \in SolveOutcomes, s2 \in SolveOutcomes :
         LET solved == solve_problem(s1, s2)
         IN  /\ Budget(SolveCost(s1, s2))
             /\ Outcome("solve", ~solved)
             /\ stepsOk' = IF solved THEN stepsOk \cup {"solve"} ELSE stepsOk
             /\ IF solved
                THEN pc' = "result" /\ UNCHANGED <<ret, exitCur>>
                ELSE Fail(RC_SOLVE, cur)
    /\ posOps' = posOps + 1
    /\ UNCHANGED <<ui, unit, args, startFail, idx, pos_i, base_rect, rect, cur, cancelled, rc, table,
                   table_written, engine, retMoves, warned, lastOk,
                   okSum, cancel>>

(***************************************************************************)
(* Lines 430-443: access to the result and to the contour.                 *)
(***************************************************************************)
ResultOutcomes == {"ok", "noresult", "nocontour"}

Result ==
    /\ pc = "result"
    /\ \E o \in ResultOutcomes :
         /\ Budget(IF o = "ok" THEN 0 ELSE 1)
         /\ Outcome(IF o = "noresult" THEN "result" ELSE "contour", o # "ok")
         /\ stepsOk' = stepsOk \cup (IF o = "noresult" THEN {}
                                      ELSE IF o = "nocontour" THEN {"result"}
                                      ELSE {"result", "contour"})
         /\ IF o = "noresult" THEN Fail(RC_RESULT, cur)
            ELSE IF o = "nocontour" THEN Fail(RC_CONTOUR, cur)
            ELSE pc' = "integral" /\ UNCHANGED <<ret, exitCur>>
    /\ posOps' = posOps + 1
    /\ UNCHANGED <<ui, unit, args, startFail, idx, pos_i, base_rect, rect, cur, cancelled, rc, table,
                   table_written, engine, retMoves, warned, lastOk,
                   okSum, cancel>>

(***************************************************************************)
(* Lines 445-478: the contour is filled, every integral is evaluated and   *)
(* recorded.  cleared: contour.Clear() completes; added: the labels for    *)
(* which contour.AddBlock1 completes (an exception of either call is       *)
(* swallowed, lines 445-453); k is the index of the first integral whose   *)
(* evaluation raises, 0 if none does.                                      *)
(***************************************************************************)
\* Integral with the cells keyed by the position alone
Integral_keyed_by_position ==
    /\ pc = "integral"
    /\ \E k \in 0..Len(integrals), cleared \in BOOLEAN,
          added \in SUBSET {move_labels[n] : n \in DOMAIN move_labels} :
         LET done == IF k = 0 THEN 1..Len(integrals) ELSE 1..(k - 1)
             filled == added = {move_labels[n] : n \in DOMAIN move_labels}
         IN  /\ Budget((IF k = 0 THEN 0 ELSE 1) + (IF cleared THEN 0 ELSE 1)
                          + (IF filled THEN 0 ELSE 1))
             /\ Outcome("integral", k # 0)
             /\ stepsOk' = stepsOk \cup (IF cleared THEN {"clear"} ELSE {})
                                    \cup (IF filled THEN {"add"} ELSE {})
             /\ table' = table \cup {<<positions[pos_i], 1, integrals[j]>> : j \in done}
             /\ IF k = 0
                THEN /\ pc' = "pos_check"
                     /\ pos_i' = pos_i + 1
                     /\ UNCHANGED <<ret, exitCur>>
                ELSE Fail(RC_INTEGRAL, cur) /\ UNCHANGED pos_i
    /\ UNCHANGED <<ui, unit, args, startFail, idx, base_rect, rect, cur, cancelled, rc,
                   table_written, engine, retMoves, warned, posOps, lastOk, okSum, cancel>>

Integral ==
    /\ pc = "integral"
    /\ \E k \in 0..Len(integrals), cleared \in BOOLEAN,
          added \in SUBSET {move_labels[n] : n \in DOMAIN move_labels} :
         LET done == IF k = 0 THEN 1..Len(integrals) ELSE 1..(k - 1)
             filled == added = {move_labels[n] : n \in DOMAIN move_labels}
         IN  /\ Budget((IF k = 0 THEN 0 ELSE 1) + (IF cleared THEN 0 ELSE 1)
                          + (IF filled THEN 0 ELSE 1))
             /\ Outcome("integral", k # 0)
             /\ stepsOk' = stepsOk \cup (IF cleared THEN {"clear"} ELSE {})
                                    \cup (IF filled THEN {"add"} ELSE {})
             /\ table' = table \cup {<<positions[pos_i], idx, integrals[j]>> : j \in done}
             /\ IF k = 0
                THEN /\ pc' = "pos_check"
                     /\ pos_i' = pos_i + 1
                     /\ UNCHANGED <<ret, exitCur>>
                ELSE Fail(RC_INTEGRAL, cur) /\ UNCHANGED pos_i
    /\ UNCHANGED <<ui, unit, args, startFail, idx, base_rect, rect, cur, cancelled, rc,
                   table_written, engine, retMoves, warned, posOps, lastOk, okSum, cancel>>

\* Finally with no return move when a return statement is pending
Finally_skips_on_return ==
    /\ pc = "finally"
    /\ IF cur # Zero /\ ret = 0
       THEN \E o \in MoveOutcomes :
              LET d == Neg(cur)
                  m == _move_by_xy(d, rect, cur, geom, o[1], o[2], o[3])
                  meshing == m.ok /\ mesh
              IN  \E b1 \in MeshOutcomes(meshing), b2 \in MeshOutcomes(meshing) :
                  /\ Budget(MoveCost(d, o) + MeshCost(b1, b2))
                  /\ MoveCall(d, m)
                  /\ retMoves' = Append(retMoves, d)
                  /\ warned' = (warned \/ ~m.ok
                                  \/ (mesh /\ ~_ensure_full_mesh(FALSE, b1, b2)))
       ELSE UNCHANGED <<geom, rect, cur, lastOk, okSum, retMoves, warned,
                        faults>>
    /\ pc' = "case_end"
    /\ UNCHANGED <<ui, unit, args, startFail, stepsOk, idx, pos_i, base_rect, cancelled, ret, rc, table,
                   table_written, fields, failedAt, exitCur, posOps, cancel>>

\* Finally returning the move code when the return move fails
Finally_returns_move_code ==
    /\ pc = "finally"
    /\ IF cur # Zero
       THEN \E o \in MoveOutcomes :
              LET d == Neg(cur)
                  m == _move_by_xy(d, rect, cur, geom, o[1], o[2], o[3])
                  meshing == m.ok /\ mesh
              IN  \E b1 \in MeshOutcomes(meshing), b2 \in MeshOutcomes(meshing) :
                  /\ Budget(MoveCost(d, o) + MeshCost(b1, b2))
                  /\ MoveCall(d, m)
                  /\ retMoves' = Append(retMoves, d)
                  /\ warned' = (warned \/ ~m.ok
                                  \/ (mesh /\ ~_ensure_full_mesh(FALSE, b1, b2)))
                  /\ ret' = IF m.ok THEN ret ELSE RC_MOVE
       ELSE UNCHANGED <<geom, rect, cur, lastOk, okSum, retMoves, warned,
                        faults, ret>>
    /\ pc' = "case_end"
    /\ UNCHANGED <<ui, unit, args, startFail, stepsOk, idx, pos_i, base_rect, cancelled, rc, table,
                   table_written, fields, failedAt, exitCur, posOps, cancel>>

(***************************************************************************)
(* Lines 479-486: the finally block of the case: the return to the start   *)
(* position and the mesh build after it.                                   *)
(***************************************************************************)
Finally ==
    /\ pc = "finally"
    /\ IF cur # Zero
       THEN \E o \in MoveOutcomes :
              LET d == Neg(cur)
                  m == _move_by_xy(d, rect, cur, geom, o[1], o[2], o[3])
                  meshing == m.ok /\ mesh
              IN  \E b1 \in MeshOutcomes(meshing), b2 \in MeshOutcomes(meshing) :
                  /\ Budget(MoveCost(d, o) + MeshCost(b1, b2))
                  /\ MoveCall(d, m)
                  /\ retMoves' = Append(retMoves, d)
                  /\ warned' = (warned \/ ~m.ok
                                  \/ (mesh /\ ~_ensure_full_mesh(FALSE, b1, b2)))
       ELSE UNCHANGED <<geom, rect, cur, lastOk, okSum, retMoves, warned,
                        faults>>
    /\ pc' = "case_end"
    /\ UNCHANGED <<ui, unit, args, startFail, stepsOk, idx, pos_i, base_rect, cancelled, ret, rc, table,
                   table_written, fields, failedAt, exitCur, posOps, cancel>>

(***************************************************************************)
(* After the finally block: a pending return takes effect; otherwise lines *)
(* 488-489 and the step to the next case.                                  *)
(***************************************************************************)
CaseEnd ==
    /\ pc = "case_end"
    /\ IF ret # 0
       THEN Return(ret) /\ UNCHANGED idx
       ELSE IF cancelled
            THEN pc' = "finish" /\ UNCHANGED <<idx, rc>>
            ELSE pc' = "case_check" /\ idx' = idx + 1 /\ UNCHANGED rc
    /\ UNCHANGED <<ui, unit, args, pos_i, base_rect, rect, cur, cancelled, ret, table,
                   table_written, engine, history, cancel, faults>>

(***************************************************************************)
(* Lines 491-539: the cancellation return, or the table and return 0.      *)
(***************************************************************************)
\* Finish writing the table before the cancellation return
Finish_writes_when_cancelled ==
    /\ pc = "finish"
    /\ IF cancelled
       THEN Return(RC_CANCEL) /\ table_written' = TRUE
       ELSE Return(RC_OK) /\ table_written' = TRUE
    /\ UNCHANGED <<ui, unit, args, idx, pos_i, base_rect, rect, cur, cancelled, ret, table,
                   engine, history, cancel, faults>>

Finish ==
    /\ pc = "finish"
    /\ IF cancelled
       THEN Return(RC_CANCEL) /\ UNCHANGED table_written
       ELSE Return(RC_OK) /\ table_written' = TRUE
    /\ UNCHANGED <<ui, unit, args, idx, pos_i, base_rect, rect, cur, cancelled, ret, table,
                   engine, history, cancel, faults>>

(***************************************************************************)
(* gui.py, stop_clicked: while the worker thread is alive the cancel event *)
(* is set.                                                                 *)
(***************************************************************************)
stop_clicked ==
    /\ pc # "done"
    /\ ~cancel
    /\ cancel' = TRUE
    /\ UNCHANGED <<ui, unit, args, locals, engine, history, faults>>

Worker ==
    \/ Start \/ CaseCheck \/ ApplyCase \/ StartMove \/ PosCheck \/ PosMove
    \/ Mesh \/ Solve \/ Result \/ Integral \/ Finally \/ CaseEnd \/ Finish

Next ==
    \/ Start
    \/ CaseCheck
    \/ ApplyCase
    \/ StartMove
    \/ PosCheck
    \/ PosMove
    \/ Mesh
    \/ Solve
    \/ Result
    \/ Integral
    \/ Finally
    \/ CaseEnd
    \/ Finish
    \/ stop_clicked

Spec == Init /\ [][Next]_vars

(***************************************************************************)
(* gui.py, run_clicked and collect_inputs: the sweep as the GUI starts it, *)
(* the only caller that passes a cancel event.  The labels, cases and      *)
(* positions are not empty, mesh and remesh are on, mesh_once is off; the  *)
(* cancel event has just been cleared.  The worker thread keeps running    *)
(* until run_batch_force_plan returns.                                     *)
(***************************************************************************)
GuiInit ==
    /\ Init
    /\ move_labels # <<>>
    /\ cases # <<>>
    /\ positions # <<>>
    /\ mesh /\ remesh /\ ~mesh_once

GuiSpec == GuiInit /\ [][Next]_vars /\ WF_vars(Worker)

(***************************************************************************)
(* gui.py, the window: no worker thread exists when it opens (pc = "idle").*)
(* The UI thread handles one event at a time.  run_clicked starts a worker *)
(* thread unless one is alive; the worker is alive until                   *)
(* run_batch_force_plan has returned (pc = "done").  The Load button       *)
(* (line 115) runs _load_label_choices on the UI thread, which calls the   *)
(* engine (dispatch_qf_app, open_problem, ensure_model_loaded,             *)
(* list_block_labels) from its first to its last line; set_running         *)
(* disables the Run button only.                                           *)
(***************************************************************************)
Alive == pc \notin {"idle", "done"}

run_clicked ==
    /\ ui # "loading"
    /\ ~Alive
    /\ cancel' = FALSE
    /\ pc' = "start" /\ idx' = 1 /\ pos_i' = 1
    /\ base_rect' = <<0, 0, 0, 0>> /\ rect' = <<0, 0, 0, 0>> /\ cur' = Zero
    /\ cancelled' = FALSE /\ ret' = 0 /\ rc' = 0
    /\ table' = {} /\ table_written' = FALSE
    /\ geom' = [v \in Verts |-> Zero] /\ fields' = NoWrites
    /\ failedAt' = "none" /\ exitCur' = Zero /\ retMoves' = <<>>
    /\ warned' = FALSE /\ posOps' = 0 /\ lastOk' = TRUE /\ okSum' = Zero
    /\ stepsOk' = {} /\ startFail' = "none" /\ faults' = 0
    /\ UNCHANGED <<ui, unit, args>>

\* the Load button is pressed: _load_label_choices starts calling the engine
load_label_choices ==
    /\ ui # "loading"
    /\ ui' = "loading"
    /\ UNCHANGED <<unit, args, locals, engine, history, cancel, faults>>

\* _load_label_choices returns, the label choices filled in
load_label_choices_done ==
    /\ ui = "loading"
    /\ ui' = "loaded"
    /\ UNCHANGED <<unit, args, locals, engine, history, cancel, faults>>

\* stop_clicked as the UI thread runs it
stop_clicked_ui == ui # "loading" /\ Alive /\ stop_clicked

WindowInit ==
    /\ move_labels = MoveLabels
    /\ cases \in CaseLists \ {<<>>}
    /\ positions \in PositionLists \ {<<>>}
    /\ integrals = Integrals
    /\ mesh = TRUE /\ remesh = TRUE /\ mesh_once = FALSE
    /\ pc = "idle" /\ idx = 1 /\ pos_i = 1
    /\ base_rect = <<0, 0, 0, 0>> /\ rect = <<0, 0, 0, 0>> /\ cur = Zero
    /\ cancelled = FALSE /\ ret = 0 /\ rc = 0
    /\ table = {} /\ table_written = FALSE /\ cancel = FALSE
    /\ geom = [v \in Verts |-> Zero] /\ fields = NoWrites
    /\ failedAt = "none" /\ exitCur = Zero /\ retMoves = <<>>
    /\ warned = FALSE /\ posOps = 0 /\ lastOk = TRUE /\ okSum = Zero
    /\ stepsOk = {} /\ startFail = "none" /\ faults = 0
    /\ call = [fn |-> "launch_gui"]
    /\ returned = <<>>
    /\ ui = "idle"

WindowNext ==
    \/ run_clicked
    \/ stop_clicked_ui
    \/ load_label_choices
    \/ load_label_choices_done
    \/ Worker

WindowSpec == WindowInit /\ [][WindowNext]_vars

(***************************************************************************)
(* The helpers applied on their own: the inputs and the engine's           *)
(* behaviour are drawn at the start, the helper is applied once, what it   *)
(* returned is kept.  No sweep is running.                                 *)
(***************************************************************************)
PollCounts == {0, 1, PollLimit - 1, PollLimit, PollLimit + 1}

SolveCalls ==
    [fn : {"solve_problem"}, has_model : BOOLEAN, s1 : SolveOutcomes, b : BOOLEAN,
     s2 : SolveOutcomes, busy : PollCounts, last : {"idle", "raise"},
     an : {"absent", "ok", "raise"}]

\* the objects of a list: those that differ in the forms the code relies on
FewTargets ==
    {t \in Targets : t.ok \subseteq {"Move(dx,dy)", "Point=PointXY"} /\ t.point = t.xy}
TargetLists == {<<>>} \cup {<<t>> : t \in FewTargets}
                   \cup {<<t, u>> : t \in FewTargets, u \in FewTargets}

ResolverCalls == [fn : {"try_move", "try_point_assign", "move_vertex"}, t : Targets]
ListCalls == [fn : {"move_block_labels", "move_shape"}, ts : TargetLists]

\* _move_by_xy from a tracked displacement c, the geometry being where the
\* tracking says or still at the baseline
BaseRect ==
    UnionBounds({BlockBounds([v \in Verts |-> Zero], MoveLabels[i]) : i \in DOMAIN MoveLabels})
StepCalls ==
    [fn : {"_move_by_xy"}, d : {Zero, <<1, 2>>, <<-1, -2>>}, c : {Zero, <<1, 2>>},
     at : BOOLEAN, o : MoveOutcomes]
GeomOf(k) == [v \in Verts |-> IF k.at /\ v \in MovingVerts THEN k.c ELSE Zero]

\* _collect_vertices_for_labels: vertices a, b, c on a line, b possibly shared
\* by two blocks, a at the origin and b, c within 1e-9 of it or of each other
CollectVerts == {"a", "b", "c"}
VertexLists == {<<"a", "b">>, <<"b", "c">>, <<"c">>}
BlockLists ==
    LET B == [via : {"Vertices", "Edges"}, vs : VertexLists]
    IN  {<<>>} \cup {<<x>> : x \in B} \cup {<<x, y>> : x \in B, y \in B}
PointMaps ==
    {("a" :> <<0, 0>>) @@ ("b" :> <<xb, 0>>) @@ ("c" :> <<xc, 0>>) :
        xb \in {4, 6, 100}, xc \in {4, 15, 200}}
CollectCalls ==
    [fn : {"_collect_vertices_for_labels"}, blocks : BlockLists, pt : PointMaps,
     readable : SUBSET CollectVerts]

\* move_vertices_by_block_label: vertices a, b, c one after the other on a
\* line, b possibly shared by two shapes; a delta below the rounding, one
\* that is half the spacing and one that is the spacing
ScanPos == ("a" :> <<0, 0>>) @@ ("b" :> <<1000, 0>>) @@ ("c" :> <<2000, 0>>)
ShapeLists ==
    {<<>>} \cup {<<x>> : x \in VertexLists} \cup {<<x, y>> : x \in VertexLists, y \in VertexLists}
\* the selection's vertices: every vertex of the shapes once
RECURSIVE Once(_)
Once(vs) ==
    IF vs = <<>> THEN <<>>
    ELSE LET front == Once(SubSeq(vs, 1, Len(vs) - 1))
             v == vs[Len(vs)]
         IN  IF \E i \in DOMAIN front : front[i] = v THEN front ELSE Append(front, v)
ScanCalls ==
    [fn : {"move_vertices_by_block_label"}, shapes : ShapeLists, sel : BOOLEAN,
     d : {<<3, 0>>, <<500, 0>>, <<1000, 0>>}, readable : SUBSET CollectVerts,
     movable : SUBSET CollectVerts]

\* the table of a sweep: one to three positions, one or two cases (possibly
\* equal), one or two integrals with no, one scalar or two vector components
\* seen, and every cell recorded but the ones named by missing
SeenChoices == [{"Force", "Torque"} -> {<<>>, <<"">>, <<"X", "Y">>}]
TableCalls ==
    [fn : {"write_table"}, positions : {Line(0), Line(1), Line(2)},
     cases : {<<CaseAt(1)>>, <<CaseAt(1), CaseAt(2)>>, <<CaseAt(1), CaseAt(1)>>},
     integrals : {<<"Force">>, Integrals}, seen : SeenChoices,
     missing : {"none", "first", "last", "all"}]
AllCells(k) ==
    {<<k.positions[p], i, c>> : p \in DOMAIN k.positions, i \in DOMAIN k.cases,
        c \in {output_cols(k.integrals, k.seen)[j] :
                  j \in DOMAIN output_cols(k.integrals, k.seen)}}
TableOf(k) ==
    LET cols == output_cols(k.integrals, k.seen)
        first == <<k.positions[1], 1, cols[1]>>
        last == <<k.positions[Len(k.positions)], Len(k.cases), cols[Len(cols)]>>
    IN  CASE k.missing = "none" -> AllCells(k)
          [] k.missing = "first" -> AllCells(k) \ {first}
          [] k.missing = "last" -> AllCells(k) \ {last}
          [] OTHER -> {}

\* segments between points on and off the 1e-6 grid, 1e-9 apart or more,
\* with steps that are negative, zero, shorter and longer than the segment
LinePoints ==
    {<<0, 0>>, <<1, 0>>, <<400, 0>>, <<3000, 0>>, <<3000, 4000>>, <<-3000, 0>>}
LineSteps == {-1000, 0, 700, 1000, 2000, 5000}
LineCalls == [fn : {"_positions_line"}, p0 : LinePoints, p1 : LinePoints, step : LineSteps]

\* mappings of no to three labels whose lists hold no to three values, one
\* of them with a repeated value
ValueLists == {<<>>, <<100>>, <<100, 200>>, <<300, 300, 400>>}
Mappings ==
    {<<>>}
    \cup {<<[name |-> "A", vals |-> a]>> : a \in ValueLists}
    \cup {<<[name |-> "A", vals |-> a], [name |-> "B", vals |-> b]>> :
             a \in ValueLists, b \in ValueLists}
    \cup {<<[name |-> "B", vals |-> b], [name |-> "C", vals |-> c],
             [name |-> "A", vals |-> a]>> :
             a \in ValueLists, b \in ValueLists, c \in ValueLists}
CaseCalls ==
    [fn : {"_cases_from_mapping_all", "_cases_from_mapping_pair"}, mapping : Mappings]

\* one to three rectangles (left, bottom, right, top), disjoint, overlapping,
\* nested or degenerate
Rects == {<<0, 0, 1, 1>>, <<2, 2, 3, 3>>, <<-1, 1, 2, 2>>, <<1, -2, 1, 0>>}
BoundsCalls ==
    [fn : {"_union_bounds"},
     bounds : UNION {[1..n -> Rects] : n \in 1..3}]

\* result blocks named in either case, with names that contain one another,
\* and a block without a readable name; labels in either case, and ""
BlockNames == {<<>>, <<"a">>, <<"A", "b">>, <<"b", "A">>, <<"B">>}
Labels == {<<>>, <<"a">>, <<"A">>, <<"b">>, <<"a", "B">>}
FindCalls ==
    [fn : {"find_result_block"},
     blocks : [readable : {TRUE}, names : UNION {[1..n -> BlockNames] : n \in 0..3}]
                \cup {[readable |-> FALSE, names |-> <<>>]},
     label : Labels, contains_ok : BOOLEAN]

\* the values an integral can return: each axis absent, numeric or not
\* convertible, the value itself numeric or not
IntegralValues ==
    [X : {"absent", "num", "bad"}, Y : {"absent", "num", "bad"},
     Z : {"absent", "num", "bad"}, scalar : {"num", "bad"}]
ComponentCalls ==
    [fn : {"_integral_components"}, val : IntegralValues, integral_name : {"Force", "Torque"}]

\* the model as a mesh call finds it: Shapes readable or not, and no call
\* shape, one of four, or every call shape completing
MeshShapes ==
    {"Shapes.BuildMesh(True,False)", "Shapes.BuildMesh()", "Model.BuildMesh(True)",
     "Model.BuildMesh()", "Shapes.RemoveMesh()", "Model.RemoveMesh()"}
MeshTargets ==
    [shapes : BOOLEAN,
     ok : {{}, MeshShapes, {"Shapes.RemoveMesh()"}, {"Model.RemoveMesh()"}}
            \cup {{m} : m \in MeshShapes}]
MeshCalls ==
    [fn : {"_ensure_full_mesh"}, force_remesh : BOOLEAN, t1 : MeshTargets, t2 : MeshTargets]

\* the actions of a plan: every supported type and one unsupported, with
\* the outcomes its branch of cmd_model tells apart
PlanActions ==
    [type : {"move_shape", "move_vertices", "move_block_labels",
             "move_vertices_by_block_label", "move_vertices_in_rect",
             "move_blocks_in_rect"},
     given : {TRUE}, res : {"moved", "unmoved", "none"}]
      \cup [type : {"move_shape", "move_vertices", "move_block_labels",
                    "move_vertices_by_block_label", "move_vertices_in_rect",
                    "move_blocks_in_rect"},
            given : {FALSE}, res : {"none"}]
      \cup [type : {"move_vertices"}, given : {TRUE}, res : {"raised"}]
      \cup [type : {"add_rect_with_block_label"}, given : {TRUE}, res : {"moved", "none"}]
      \cup [type : {"scale"}, given : {TRUE}, res : {"none"}]
Plans == {<<a>> : a \in PlanActions} \cup {<<a, b>> : a \in PlanActions, b \in PlanActions}
ModelCalls ==
    [fn : {"cmd_model"}, actions : Plans, rebuild_each : BOOLEAN, rebuild_end : BOOLEAN,
     save : {"no", "ok", "failed"}]

Calls == SolveCalls \cup ResolverCalls \cup ListCalls \cup StepCalls \cup CollectCalls
             \cup MeshCalls \cup ModelCalls
             \cup ComponentCalls
             \cup FindCalls
             \cup ScanCalls \cup TableCalls \cup LineCalls \cup CaseCalls
             \cup BoundsCalls

Apply(fn, value) ==
    /\ call.fn = fn
    /\ returned = <<>>
    /\ returned' = <<value>>
    /\ UNCHANGED <<ui, call, args, locals, engine, history, cancel, faults>>

SolveProblem ==
    Apply("solve_problem",
          solve_problem_calls(call.has_model, call.s1, call.b, call.s2, call.busy, call.an))

TryMove == Apply("try_move", try_move(call.t))
TryPointAssign == Apply("try_point_assign", try_point_assign(call.t))
MoveVertex == Apply("move_vertex", move_vertex(call.t))
MoveBlockLabels == Apply("move_block_labels", move_block_labels(call.ts))
MoveShape == Apply("move_shape", move_shape(call.ts))

MoveByXY ==
    Apply("_move_by_xy",
          _move_by_xy(call.d, Translate(BaseRect, call.c), call.c, GeomOf(call),
                      call.o[1], call.o[2], call.o[3]))

CollectVertices ==
    Apply("_collect_vertices_for_labels",
          _collect_vertices_for_labels(call.blocks, call.pt, call.readable))

MoveVerticesByBlockLabel ==
    Apply("move_vertices_by_block_label",
          move_vertices_by_block_label(
              IF call.sel THEN Once(Flat(call.shapes)) ELSE <<>>,
              call.shapes, ScanPos, call.readable, call.movable, call.d))

WriteTable ==
    Apply("write_table",
          write_table(call.positions, call.cases,
                      output_cols(call.integrals, call.seen), TableOf(call)))

PositionsLine ==
    Apply("_positions_line", _positions_line(call.p0, call.p1, call.step))

CasesFromMappingAll ==
    Apply("_cases_from_mapping_all", _cases_from_mapping_all(call.mapping))

CasesFromMappingPair ==
    Apply("_cases_from_mapping_pair", _cases_from_mapping_pair(call.mapping))

UnionBoundsOf ==
    Apply("_union_bounds", UnionBounds({call.bounds[i] : i \in DOMAIN call.bounds}))

FindResultBlock ==
    Apply("find_result_block",
          find_result_block(call.blocks, call.label, call.contains_ok))

\* lines 458-473 for one integral: the components and the columns they are recorded in
IntegralComponents ==
    Apply("_integral_components",
          LET comps == _integral_components(call.val)
          IN  [comps |-> comps,
               cols |-> [c \in DOMAIN comps |-> ColName(call.integral_name, comps[c][1])]])

EnsureFullMesh ==
    Apply("_ensure_full_mesh",
          _ensure_full_mesh_calls(call.force_remesh, call.t1, call.t2))

CmdModel ==
    Apply("cmd_model",
          cmd_model(call.actions, call.rebuild_each, call.rebuild_end, call.save))

UnitInit ==
    /\ move_labels = MoveLabels
    /\ cases = <<>>
    /\ positions = <<>>
    /\ integrals = Integrals
    /\ mesh = FALSE /\ remesh = FALSE /\ mesh_once = FALSE
    /\ Entry
    /\ call \in Calls
    /\ returned = <<>>
    /\ ui = "idle"

UnitNext ==
    \/ SolveProblem
    \/ TryMove
    \/ TryPointAssign
    \/ MoveVertex
    \/ MoveBlockLabels
    \/ MoveShape
    \/ MoveByXY
    \/ CollectVertices
    \/ MoveVerticesByBlockLabel
    \/ WriteTable
    \/ PositionsLine
    \/ CasesFromMappingAll
    \/ CasesFromMappingPair
    \/ UnionBoundsOf
    \/ FindResultBlock
    \/ IntegralComponents
    \/ EnsureFullMesh
    \/ CmdModel

UnitSpec == UnitInit /\ [][UnitNext]_vars

TypeOK ==
    /\ pc \in {"start", "case_check", "apply", "start_move", "pos_check", "pos_move",
               "mesh", "solve", "result", "integral", "finally", "case_end",
               "finish", "done", "idle"}
    /\ idx \in 1..(MaxCases + 1)
    /\ pos_i \in 1..(MaxSteps + 2)
    /\ cancelled \in BOOLEAN
    /\ cancel \in BOOLEAN

(***************************************************************************)
(* Properties.                                                             *)
(***************************************************************************)
\* the worker is inside the try block of a case
InTry == pc \in {"start_move", "pos_check", "pos_move", "mesh", "solve", "result",
                 "integral"}
\* the worker is inside a case: in the try block, in its finally block or just after
InCase == InTry \/ pc \in {"finally", "case_end"}
AtBaseline == \A v \in MovingVerts : geom[v] = Zero
\* the return moves the finally block has to attempt for a loop left at cur = c
ReturnMovesFor(c) == IF c # Zero THEN <<Neg(c)>> ELSE <<>>
StepCode(step) ==
    CASE step = "move" -> RC_MOVE
      [] step = "mesh" -> RC_MESH
      [] step = "solve" -> RC_SOLVE
      [] step = "result" -> RC_RESULT
      [] step = "contour" -> RC_CONTOUR
      [] step = "integral" -> RC_INTEGRAL
      [] OTHER -> RC_OK

\* C1: however the position loop of a case is left, once its finally block is
\* over exactly one return move by (-cur_x, -cur_y) has been attempted when the
\* tracked displacement at the exit was not (0,0) (and none when it was);
\* no return move is attempted while the try block is still running.
C1_ReturnMoveOnEveryExit ==
    /\ InTry \/ pc = "finally" => retMoves = <<>>
    /\ pc \in {"case_end", "finish", "done", "case_check", "apply"}
         => retMoves = ReturnMovesFor(exitCur)

\* a case left by a solve failure away from the start position, return move attempted
C1_Witness ==
    pc = "case_end" /\ failedAt = "solve" /\ exitCur # Zero /\ Len(retMoves) = 1

\* C2: when a case begins its position loop (tracking just reset), the moving
\* geometry in the engine is at the baseline layout.
C2_CaseStartsAtBaseline == pc = "start_move" => AtBaseline

\* C3: whenever _move_by_xy reports success for a non-zero delta, every vertex
\* of the moving group has been displaced by exactly that delta.
C3_SuccessMovesEveryVertex ==
    [][(pc \in {"start_move", "pos_move", "finally"} /\ lastOk' /\ cur' # cur)
         => \A v \in MovingVerts : geom'[v] = Add(geom[v], Sub(cur', cur))]_vars

\* C4: inside a case the tracked rect is base_rect translated by the tracked
\* displacement, the tracked displacement is the sum of the deltas of the
\* _move_by_xy calls that reported success since the case began, and a call
\* that reports failure leaves rect and displacement unchanged.
C4_TrackingFollowsSuccessfulMoves ==
    /\ [](InCase => rect = Translate(base_rect, cur) /\ cur = okSum)
    /\ [][(pc \in {"start_move", "pos_move", "finally"} /\ ~lastOk')
            => (rect' = rect /\ cur' = cur)]_vars

\* a failed return move has left the tracking at a non-zero displacement
C4_Witness == pc = "case_end" /\ ~lastOk /\ cur # Zero /\ retMoves # <<>>

\* C5: once an engine step of a position has failed, no further position or
\* case is processed, nothing more is solved, extracted or recorded, the
\* finally block of the current case runs (with its return move when the
\* tracked displacement is non-zero), and the function returns the non-zero
\* code of the failed step.
C5_FailureAborts ==
    /\ [](failedAt # "none" =>
            /\ pc \in {"finally", "case_end", "done"}
            /\ ret = StepCode(failedAt) /\ ret # 0
            /\ (pc = "done" => rc = ret)
            /\ (pc # "finally" => retMoves = ReturnMovesFor(exitCur)))
    /\ [][failedAt # "none" =>
            /\ idx' = idx /\ pos_i' = pos_i /\ posOps' = posOps
            /\ table' = table /\ fields' = fields /\ failedAt' = failedAt]_vars

\* returned after a mesh failure away from the start position
C5_Witness ==
    pc = "done" /\ failedAt = "mesh" /\ rc = RC_MESH /\ Len(retMoves) = 1

\* C6: the cancel flag takes effect only at the head of the case loop and at
\* the head of the position loop; from the move of a position on, each step
\* is followed by the next step of the position or, on failure, by the finally
\* block, whether or not the flag is set; a cancel observed at a position
\* boundary leads to the finally block, whose return move is over before the
\* function returns.
NextStep(p) ==
    CASE p = "pos_move" -> "mesh"
      [] p = "mesh" -> "solve"
      [] p = "solve" -> "result"
      [] p = "result" -> "integral"
      [] p = "integral" -> "pos_check"
      [] OTHER -> p

C6_CancelOnlyAtBoundaries ==
    /\ [][/\ (cancelled' # cancelled => pc \in {"case_check", "pos_check"} /\ cancel)
          /\ (pc \in {"pos_move", "mesh", "solve", "result", "integral"} /\ pc' # pc
                => \/ pc' = NextStep(pc) /\ failedAt' = "none"
                   \/ pc' = "finally" /\ failedAt' # "none")
          /\ (pc = "pos_check" /\ cancelled' => pc' = "finally")]_vars
    /\ [](cancelled /\ pc \in {"finish", "done"} => retMoves = ReturnMovesFor(exitCur))

\* the flag was set during a position and the position went on to its extraction
C6_Witness == cancel /\ ~cancelled /\ pc = "integral" /\ cur # Zero

\* C7: a run that ends cancelled leaves the geometry at the baseline and has
\* no result cell for the position at whose boundary the cancel was observed.
C7_CancelEndsAtBaseline ==
    (pc = "done" /\ rc = RC_CANCEL) =>
        /\ AtBaseline
        /\ (pos_i <= Len(positions) /\ idx <= Len(cases)
              => \A c \in table : ~(c[1] = positions[pos_i] /\ c[2] = idx))

\* C8: once the cancel flag is set the sweep returns; if the flag is set when
\* a boundary check is executed the sweep returns 99 and never 0; after the
\* flag was observed no field is applied and no position step is started.
AtCheck ==
    \/ pc = "case_check" /\ idx <= Len(cases)
    \/ pc = "pos_check" /\ pos_i <= Len(positions)

C8_CancelLeadsToReturn ==
    /\ (cancel ~> pc = "done")
    /\ ((cancel /\ AtCheck) ~> (pc = "done" /\ rc = RC_CANCEL))
    /\ [](pc = "done" /\ cancelled => rc # RC_OK)
    /\ [][cancelled => fields' = fields /\ posOps' = posOps /\ idx' = idx
                       /\ pos_i' = pos_i /\ table' = table]_vars

\* cancelled at the boundary before a position, away from the start position
C8_Witness ==
    pc = "done" /\ rc = RC_CANCEL /\ pos_i <= Len(positions) /\ pos_i > 1
        /\ retMoves # <<>>

\* C9: the function returns the code of the step that failed, or 99 when it
\* was cancelled, also when the return move or the mesh build after it fails;
\* such a failure sets the warning and leaves the pending return code alone.
C9_RestorationNeverMasks ==
    /\ [](pc = "done" =>
            /\ (failedAt # "none" => rc = StepCode(failedAt))
            /\ (failedAt = "none" /\ cancelled => rc = RC_CANCEL))
    /\ [][pc = "finally" =>
            /\ ret' = ret /\ cancelled' = cancelled
            /\ (pc' = "case_end" /\ cur # Zero /\ ~lastOk' => warned')]_vars

\* a solve failure followed by a failed return move
C9_Witness ==
    pc = "done" /\ failedAt = "solve" /\ warned /\ ~lastOk /\ rc = RC_SOLVE

\* C10: inside case idx every label of the case has had its field written
\* exactly once per case so far and holds the case's value, a label the case
\* does not mention has not been written for it, and the fields are written
\* only when a case is applied, before its first move.
WritesUpTo(l, i) == Cardinality({j \in 1..i : l \in DOMAIN cases[j]})

C10_FieldsOncePerCase ==
    /\ [](InCase => \A l \in FieldLabels :
            /\ fields.n[l] = WritesUpTo(l, idx)
            /\ (l \in DOMAIN cases[idx] => fields.val[l] = cases[idx][l]))
    /\ [][fields' # fields => pc = "apply" /\ pc' = "start_move"]_vars

\* the second case is being solved under its own value of A
C10_Witness ==
    pc = "solve" /\ idx = 2 /\ fields.n["A"] = 2 /\ fields.val["A"] = 200

\* C11: within a position the steps run in the order move, mesh build, solve,
\* result and contour access, recording: the mesh build is reached only after
\* the position's move reported success, the solve only after that and (when
\* mesh is on) after a mesh build of this position succeeded, the extraction
\* only after the solve succeeded, and a cell is written only for the current
\* (position, case) and only after all of these.
BeforeSolve == {"move"} \cup (IF mesh THEN {"mesh"} ELSE {})

C25_ContourClearedAndFilled ==
    [][pc = "integral" /\ pc' # pc =>
         \/ {"clear", "add"} \subseteq stepsOk'
         \/ table' = table /\ pc' = "finally" /\ ret' # 0]_vars

\* C34: at most one thread calls the engine at any moment: a worker thread is
\* started only when none is alive, and while a worker is alive the UI thread
\* makes no engine call of its own.
C34_OneEngineCaller ==
    /\ [][pc' = "start" /\ pc # "start" => ~Alive]_vars
    /\ [](Alive => ui # "loading")

\* C35: the table is written only by a sweep that went through every case and
\* position and returns 0; a sweep that returns a failure code or 99 writes
\* no table, whatever it had recorded.
C35_TableOnlyOnSuccess ==
    /\ [](table_written =>
            /\ pc = "done" /\ rc = RC_OK
            /\ idx = Len(cases) + 1 /\ pos_i = Len(positions) + 1)
    /\ [](pc = "done" /\ rc = RC_OK => table_written)
    /\ [](pc = "done" /\ rc # RC_OK => ~table_written)

\* a sweep cancelled after it had recorded cells
C35_Witness ==
    pc = "done" /\ rc = RC_CANCEL /\ table # {} /\ ~table_written

\* C36: a sweep move that reports success displaces only the vertices of the
\* blocks labelled in move_labels; the vertices of every other block stay
\* where they are, also those inside the union rect of the moving blocks.
C36_OnlyMovingLabelsDisplaced ==
    [][(pc \in {"start_move", "pos_move", "finally"} /\ lastOk' /\ cur' # cur)
         => \A v \in Verts \ MovingVerts : geom'[v] = geom[v]]_vars

Cause ==
    IF startFail # "none" THEN startFail
    ELSE IF failedAt # "none" THEN failedAt
    ELSE IF cancelled THEN "cancel"
    ELSE "none"

CategoryOf(cause) ==
    CASE cause \in {"labels", "cases", "positions", "outputs"} -> "empty inputs"
      [] cause = "problem" -> "connection"
      [] cause = "model" -> "model load"
      [] cause = "block" -> "label not found"
      [] cause = "bounds" -> "bounds unavailable"
      [] cause \in {"result", "contour"} -> "result access"
      [] OTHER -> cause

\* the category a code stands for; 6 is first returned for empty outputs (line 311)
CodeCategory(code) ==
    CASE code \in {RC_NO_LABELS, RC_NO_CASES, RC_NO_POSITIONS, RC_NO_OUTPUTS} -> "empty inputs"
      [] code = RC_NO_PROBLEM -> "connection"
      [] code = RC_NO_MODEL -> "model load"
      [] code = RC_NO_BOUNDS -> "bounds unavailable"
      [] code = RC_MOVE -> "move"
      [] code = RC_MESH -> "mesh"
      [] code = RC_SOLVE -> "solve"
      [] code \in {RC_RESULT, RC_CONTOUR} -> "result access"
      [] code = RC_INTEGRAL -> "integral"
      [] code = RC_CANCEL -> "cancel"
      [] OTHER -> "none"

C12_CodesDenoteOneCategory ==
    pc = "done" /\ rc # RC_OK => CategoryOf(Cause) = CodeCategory(rc)

\* C22: base_rect is set once, by the setup, from the blocks' bounds; after
\* that the tracked rect changes only when a case is applied, to base_rect,
\* or when a _move_by_xy call reports success, by translation by that call's
\* delta; it never follows the engine geometry.
C22_RectNeverReread ==
    /\ [][base_rect' # base_rect => pc = "start" /\ pc' = "case_check"]_vars
    /\ [][pc = "apply" /\ pc' # pc => rect' = base_rect]_vars
    /\ [][rect' # rect =>
            \/ pc = "apply" /\ rect' = base_rect
            \/ /\ pc \in {"start_move", "pos_move", "finally"}
               /\ lastOk'
               /\ rect' = Translate(rect, Sub(cur', cur))]_vars

\* a case is applied while the blocks are not where they were at the setup
C22_Witness ==
    pc = "start_move" /\ idx = 2 /\ ~AtBaseline /\ rect = base_rect

(***************************************************************************)
(* Properties of the helpers applied on their own.                         *)
(***************************************************************************)
CountOf(seq, x) == Cardinality({i \in DOMAIN seq : seq[i] = x})
\* the calls issued after the last call named x
After(seq, x) ==
    LET k == SetMax({i \in DOMAIN seq : seq[i] = x})
    IN  SubSeq(seq, k + 1, Len(seq))
Solved == call.fn = "solve_problem" /\ returned # <<>>

\* C13: one invocation of solve_problem issues the solve call once or twice,
\* never more; it issues it twice only when the first call failed with the
\* transient class, and then exactly one build_mesh call lies between the two.
C13_AtMostOneRetry ==
    Solved =>
        LET calls == returned[1].calls
        IN  /\ CountOf(calls, "Solve") \in {1, 2}
            /\ calls[1] = "Solve"
            /\ CountOf(calls, "Solve") = 2 =>
                  /\ call.s1 = "transient"
                  /\ CountOf(calls, "build_mesh") = 1
                  /\ SubSeq(calls, 1, 3) = <<"Solve", "build_mesh", "Solve">>

\* the first call failed with the transient class and the solve was retried
C13_Witness ==
    Solved /\ call.s1 = "transient" /\ CountOf(returned[1].calls, "Solve") = 2

\* C14: solve_problem returns True with a warning when the retry fails with the
\* transient class again, and False when the first call or the retry fails
\* outside the transient class; the sweep's solve step sees the same value.
C14_RetryOutcome ==
    Solved =>
        LET r == returned[1]
        IN  /\ (call.has_model /\ call.s1 = "transient" /\ call.s2 = "transient"
                  => r.ok /\ r.warned)
            /\ (call.s1 = "other" => ~r.ok)
            /\ (call.has_model /\ call.s1 = "transient" /\ call.s2 = "other" => ~r.ok)
            /\ (call.has_model => r.ok = solve_problem(call.s1, call.s2))

\* the retry failed with the transient class and solve_problem returned True
C14_Witness ==
    /\ Solved /\ call.has_model /\ call.s1 = "transient" /\ call.s2 = "transient"
    /\ returned[1].ok /\ returned[1].warned

\* C15: when solve_problem returns True after a solve call that completed
\* without error (the first call, or the retry), the last solve call is
\* followed by the busy polls and then, when the problem exposes it, by
\* AnalyzeResults.
C15_SuccessIsAnalyzed ==
    (Solved /\ (call.s1 = "ok" \/ (call.has_model /\ call.s1 = "transient"
                                      /\ call.s2 = "ok")))
        => LET tail == After(returned[1].calls, "Solve")
           IN  /\ returned[1].ok
               /\ tail # <<>>
               /\ tail[1] = "IsBusy"
               /\ (call.an # "absent" => tail[Len(tail)] = "AnalyzeResults")

\* C16: after a solve call that completed at the first attempt, IsBusy is
\* polled until the first poll at which it reads false or raises, and at most
\* PollLimit times; then AnalyzeResults is called when exposed, nothing else
\* is called, and solve_problem returns True.  No invocation polls more than
\* PollLimit times.
C16_BusyWaitBounded ==
    Solved =>
        LET r == returned[1]
            polls == CountOf(r.calls, "IsBusy")
        IN  /\ polls <= PollLimit
            /\ call.s1 = "ok" =>
                  /\ polls = (IF call.busy + 1 <= PollLimit THEN call.busy + 1
                              ELSE PollLimit)
                  /\ r.ok
                  /\ r.calls = <<"Solve">> \o Polls(polls)
                                 \o (IF call.an = "absent" THEN <<>>
                                     ELSE <<"AnalyzeResults">>)

\* IsBusy never read false: the wait gave up at the limit and the analysis ran
C16_Witness ==
    /\ Solved /\ call.s1 = "ok" /\ call.busy > PollLimit /\ call.an = "raise"
    /\ CountOf(returned[1].calls, "IsBusy") = PollLimit /\ returned[1].ok

\* the helper named fn has returned
Did(fn) == call.fn = fn /\ returned # <<>>
\* the last call form a helper attempted on target t completed
Completed(t, calls) == calls # <<>> /\ calls[Len(calls)] \in t.ok

\* C17: move_vertex attempts the call forms in the order: move by a
\* displacement vector, move by two scalar deltas, no-argument move, point
\* reassignment, setting X and Y; no form is attempted after one completed.
FormOrder == <<"Move(PointXY)", "Move(dx,dy)", "Move()", "Point=PointXY", "Point.X">>
FirstAt(calls, f) == SetMin({i \in DOMAIN calls : calls[i] = f})
Attempted(calls, f) == \E i \in DOMAIN calls : calls[i] = f

C17_CallFormOrder ==
    Did("move_vertex") =>
        LET calls == returned[1].calls
        IN  /\ \A i \in DOMAIN FormOrder : \A j \in DOMAIN FormOrder :
                  (i < j /\ Attempted(calls, FormOrder[i]) /\ Attempted(calls, FormOrder[j]))
                      => FirstAt(calls, FormOrder[i]) < FirstAt(calls, FormOrder[j])
            /\ \A k \in 1..(Len(calls) - 1) :
                  calls[k] \in call.t.ok => (calls[k] = "Point.X" /\ calls[k + 1] = "Point.Y")

\* C18: try_move and try_point_assign return a form's name exactly when a form
\* completed and None otherwise; move_block_labels goes on to try_move when the
\* point assignment completed no form, and counts exactly the labels on which
\* some form completed; a move_shape action returns 5 exactly when a shape
\* has no form that completes.
C18_ResolversReportFailure ==
    /\ Did("try_move") =>
          (returned[1].name # "None" <=> Completed(call.t, returned[1].calls))
    /\ Did("try_point_assign") =>
          (returned[1].name # "None" <=> Completed(call.t, returned[1].calls))
    /\ Did("move_block_labels") =>
          LET r == returned[1]
          IN  /\ r.moved = Cardinality({i \in DOMAIN call.ts :
                                          Completed(call.ts[i], r.calls[i].calls)})
              /\ \A i \in DOMAIN call.ts :
                    ~Completed(call.ts[i], try_point_assign(call.ts[i]).calls)
                        => Attempted(r.calls[i].calls, "Move()")
    /\ Did("move_shape") /\ call.ts # <<>> =>
          LET r == returned[1]
          IN  r.rc = 5 <=> \E i \in DOMAIN r.calls : ~Completed(call.ts[i], r.calls[i].calls)

\* C19: a move step by a non-zero delta calls move_blocks_in_rect first; it
\* calls move_vertex only when the region move displaced no block and
\* reported 0, so no step displaces blocks by the region move and also issues
\* per-vertex moves; with a region move that displaced blocks the geometry is
\* exactly what the region move left.
C19_RegionMoveFirst ==
    (Did("_move_by_xy") /\ call.d # Zero) =>
        LET r == returned[1]
            region == move_blocks_in_rect(GeomOf(call), Translate(BaseRect, call.c),
                                          call.o[1], call.o[2])
        IN  /\ r.calls[1] = "move_blocks_in_rect"
            /\ CountOf(r.calls, "move_blocks_in_rect") = 1
            /\ Attempted(r.calls, "move_vertex") => (r.region = {} /\ region.moved = 0)
            /\ r.region # {} =>
                  /\ r.calls = <<"move_blocks_in_rect">>
                  /\ r.geom = Displace(GeomOf(call), VertsOf(r.region), call.d)

\* the first region path found nothing, the second moved the blocks: no vertex move
C19_Witness ==
    /\ Did("_move_by_xy") /\ call.d # Zero /\ call.o[1] = "nosel"
    /\ returned[1].region = Blocks /\ returned[1].calls = <<"move_blocks_in_rect">>

\* C20: the list _collect_vertices_for_labels returns holds no two entries
\* whose coordinates agree after rounding to 9 decimals, whichever blocks they
\* come from; in particular a vertex of two blocks is entered once, and the
\* per-vertex fallback (one move_vertex per entry) moves it once.
C20_VerticesCollectedOnce ==
    Did("_collect_vertices_for_labels") =>
        LET vs == returned[1]
        IN  \A i \in DOMAIN vs : \A j \in DOMAIN vs :
              i # j => Key(call.pt[vs[i]]) # Key(call.pt[vs[j]])

\* C21: when move_vertices_by_block_label takes the shape scan, every vertex
\* of the labelled shapes on which a move form completes ends displaced by
\* exactly (dx, dy), also when two of the shapes share it; the other vertices
\* stay where they were.
C21_SharedVertexMovedOnce ==
    (Did("move_vertices_by_block_label") /\ ~call.sel) =>
        \A v \in CollectVerts :
            returned[1].pos[v] =
                IF v \in call.movable /\ (\E i \in DOMAIN call.shapes :
                                             \E j \in DOMAIN call.shapes[i] :
                                                call.shapes[i][j] = v)
                THEN Add(ScanPos[v], call.d)
                ELSE ScanPos[v]

\* C23: the table has the header dx, dy followed by one column per (case,
\* output column), the cases in input order and within a case the output
\* columns in selection order (with scalar outputs: the integrals as
\* selected); it has one row per entry of positions, in order, that starts
\* with the position and holds under every column the recorded cell, or the
\* empty cell when none was recorded.
C23_TableLayout ==
    Did("write_table") =>
        LET t == returned[1]
            cols == output_cols(call.integrals, call.seen)
            nc == Len(call.cases)
            no == Len(cols)
        IN  /\ ((\A n \in DOMAIN call.integrals : Len(call.seen[call.integrals[n]]) <= 1)
                   => cols = call.integrals)
            /\ Len(t.header) = 2 + nc * no
            /\ t.header[1] = "dx" /\ t.header[2] = "dy"
            /\ Len(t.rows) = Len(call.positions)
            /\ \A p \in DOMAIN call.positions :
                  /\ Len(t.rows[p]) = 2 + nc * no
                  /\ t.rows[p][1] = call.positions[p][1]
                  /\ t.rows[p][2] = call.positions[p][2]
            /\ \A i \in 1..nc : \A j \in 1..no :
                  LET k == 2 + (i - 1) * no + j
                  IN  /\ t.header[k] = <<call.cases[i], cols[j]>>
                      /\ \A p \in DOMAIN call.positions :
                            LET cell == <<call.positions[p], i, cols[j]>>
                            IN  t.rows[p][k] = IF cell \in TableOf(call) THEN <<cell>>
                                               ELSE <<>>

\* three positions, two cases, two scalar outputs, the last cell not recorded
C23_Witness ==
    /\ Did("write_table") /\ Len(call.positions) = 3 /\ Len(call.cases) = 2
    /\ call.missing = "last" /\ Len(returned[1].header) = 6
    /\ returned[1].rows[3][6] = <<>> /\ returned[1].rows[3][5] # <<>>

\* the number of whole steps in the segment of a call of _positions_line
WholeSteps == IntRatio(Sub(call.p1, call.p0), call.step)
Intervals == IF WholeSteps > 1 THEN WholeSteps ELSE 1
Rounded(pt) == <<Round6(pt[1], 1), Round6(pt[2], 1)>>
Apart == Sq(Sub(call.p1, call.p0)) > LengthEps * LengthEps

C28_StepCheckedFirst ==
    Did("_positions_line") =>
        /\ (call.step <= 0 => returned[1].raised)
        /\ (call.step > 0 /\ call.p0 = call.p1
              => ~returned[1].raised /\ returned[1].out = <<call.p0>>)

\* C28 as the code has it: _positions_line raises for every step <= 0, and
\* for a positive step and end points at most 1e-9 apart returns one sample,
\* the start point rounded to 6 decimals.
C28_StepCheckedFirstRounded ==
    Did("_positions_line") =>
        /\ (call.step <= 0 => returned[1].raised)
        /\ (call.step > 0 /\ ~Apart
              => ~returned[1].raised /\ returned[1].out = <<Rounded(call.p0)>>)

\* equal end points off the 1e-6 grid
C28_Witness ==
    /\ Did("_positions_line") /\ call.p0 = <<400, 0>> /\ call.p1 = call.p0
    /\ call.step = 1000 /\ returned[1].out = <<(<<0, 0>>)>>

\* the product of the list lengths of the items
RECURSIVE Product(_)
Product(items) == IF items = <<>> THEN 1 ELSE Len(Head(items).vals) * Product(Tail(items))

\* the choices of one position in every list of mapping m, and the case of a choice
Longest(m) == CHOOSE k \in {Len(m[l].vals) : l \in DOMAIN m} :
                \A l \in DOMAIN m : k >= Len(m[l].vals)
Choices(m) == {f \in [DOMAIN m -> 1..Longest(m)] : \A l \in DOMAIN m : f[l] <= Len(m[l].vals)}
CaseOf(m, f) ==
    [name \in Names(m) |->
       LET l == CHOOSE x \in DOMAIN m : m[x].name = name IN m[l].vals[f[l]]]

\* C29: for a mapping with labels _cases_from_mapping_all returns as many
\* cases as the product of the list lengths, every case gives a value to
\* every label, and the case of every choice of one position per list
\* appears once for every such choice (once when the values of each list
\* are pairwise different); the empty mapping gives no case.
C29_AllCombinations ==
    Did("_cases_from_mapping_all") =>
        LET m == call.mapping
            out == returned[1].out
        IN  /\ ~returned[1].raised
            /\ m = <<>> => out = <<>>
            /\ m # <<>> =>
                  /\ Len(out) = Product(m)
                  /\ \A k \in DOMAIN out : DOMAIN out[k] = Names(m)
                  /\ \A f \in Choices(m) :
                        Cardinality({k \in DOMAIN out : out[k] = CaseOf(m, f)})
                          = Cardinality({g \in Choices(m) : CaseOf(m, g) = CaseOf(m, f)})

\* three labels with one, two and two values: four cases
C29_Witness ==
    /\ Did("_cases_from_mapping_all") /\ Len(call.mapping) = 3
    /\ Len(returned[1].out) = 4
    /\ \E k \in 1..4 : returned[1].out[k] = [A |-> 200, B |-> 100, C |-> 200]

\* C30: _cases_from_mapping_pair raises exactly when two labels have lists
\* of different lengths; otherwise it returns as many cases as the common
\* length, case i giving every label the i-th value of its list (no case for
\* the empty mapping).
C30_PairByIndex ==
    Did("_cases_from_mapping_pair") =>
        LET m == call.mapping
            out == returned[1].out
        IN  /\ returned[1].raised
                 <=> \E a \in DOMAIN m, b \in DOMAIN m : Len(m[a].vals) # Len(m[b].vals)
            /\ m = <<>> => out = <<>>
            /\ ~returned[1].raised /\ m # <<>> =>
                  /\ Len(out) = Len(m[1].vals)
                  /\ \A i \in DOMAIN out :
                        /\ DOMAIN out[i] = Names(m)
                        /\ \A l \in DOMAIN m : out[i][m[l].name] = m[l].vals[i]

\* three labels with two values each: two cases paired by index
C30_Witness ==
    /\ Did("_cases_from_mapping_pair") /\ Len(call.mapping) = 3
    /\ returned[1].out = <<[A |-> 100, B |-> 100, C |-> 100],
                           [A |-> 200, B |-> 200, C |-> 200]>>

\* C31: _union_bounds of a non-empty list of rectangles returns the smallest
\* rectangle containing every one of them: it contains each input, and each
\* of its sides is the side of some input.
C31_UnionIsSmallestCover ==
    Did("_union_bounds") =>
        LET u == returned[1]
            bs == call.bounds
        IN  /\ \A i \in DOMAIN bs :
                  u[1] <= bs[i][1] /\ u[2] <= bs[i][2] /\ u[3] >= bs[i][3] /\ u[4] >= bs[i][4]
            /\ \A c \in 1..4 : \E i \in DOMAIN bs : u[c] = bs[i][c]

\* the rectangles (0,0,1,1) and (2,2,3,3) give (0,0,3,3)
C31_Witness ==
    /\ Did("_union_bounds") /\ call.bounds = <<(<<0, 0, 1, 1>>), (<<2, 2, 3, 3>>)>>
    /\ returned[1] = <<0, 0, 3, 3>>

\* the blocks of a call of find_result_block whose name equals, or contains,
\* the label when case is ignored
SameName == {i \in DOMAIN call.blocks.names : Lower(call.blocks.names[i]) = Lower(call.label)}
Containing ==
    {i \in DOMAIN call.blocks.names : Contains(Lower(call.label), Lower(call.blocks.names[i]))}

Present == {a \in {"X", "Y", "Z"} : call.val[a] # "absent"}

\* C33: a value that exposes some of the axes X, Y, Z is recorded as one
\* component per axis present, in the column <output>.<axis>; a value that
\* exposes none is recorded as one component with the empty name, in the
\* column <output>.
C33_OneComponentPerAxis ==
    Did("_integral_components") =>
        LET comps == returned[1].comps
            cols == returned[1].cols
        IN  IF Present # {}
            THEN /\ Len(comps) = Cardinality(Present)
                 /\ {comps[c][1] : c \in DOMAIN comps} = Present
                 /\ \A c \in DOMAIN comps :
                       cols[c] = call.integral_name \o "." \o comps[c][1]
            ELSE /\ Len(comps) = 1 /\ comps[1][1] = ""
                 /\ cols = <<call.integral_name>>

\* the delta of the calls of move_vertex
VertexDelta == <<1, 2>>

\* C38: when move_vertex returns False the vertex is where it was; when it
\* returns True the vertex has been displaced by (dx, dy), once.
C38_MoveVertexAllOrNothing ==
    Did("move_vertex") =>
        LET r == returned[1]
            moved == Displaced(call.t, r.calls, VertexDelta)
        IN  IF r.ok THEN moved = VertexDelta ELSE moved = Zero

\* the helper calls of a call of _ensure_full_mesh, by name
HelperNames(calls) == [i \in DOMAIN calls |-> calls[i].name]

\* C39: without force_remesh _ensure_full_mesh builds once and, only when
\* that build fails, removes the mesh and builds once more, returning False
\* only when both builds fail; with force_remesh it removes the mesh and
\* builds once; no call of build_mesh or remove_mesh attempts a call shape
\* twice.
C39_MeshBuiltAtMostTwice ==
    Did("_ensure_full_mesh") =>
        LET r == returned[1]
            names == HelperNames(r.calls)
        IN  /\ IF call.force_remesh
               THEN names = <<"remove_mesh", "build_mesh">> /\ r.ok = r.calls[2].ok
               ELSE IF r.calls[1].ok
               THEN names = <<"build_mesh">> /\ r.ok
               ELSE /\ names = <<"build_mesh", "remove_mesh", "build_mesh">>
                    /\ r.ok = r.calls[3].ok
            /\ r.ok = _ensure_full_mesh(call.force_remesh, build_mesh(call.t1).ok,
                                        build_mesh(call.t2).ok)
            /\ \A h \in DOMAIN r.calls :
                  \A i \in DOMAIN r.calls[h].calls, j \in DOMAIN r.calls[h].calls :
                    i # j => r.calls[h].calls[i] # r.calls[h].calls[j]

\* the first build fails on every call shape, the mesh is removed, the second
\* build completes on the model
C39_Witness ==
    /\ Did("_ensure_full_mesh") /\ ~call.force_remesh
    /\ Len(returned[1].calls) = 3 /\ returned[1].ok
    /\ Len(returned[1].calls[1].calls) = 6
    /\ returned[1].calls[2].ok

\* the first action of the plan that cmd_model reports as failed or as of an
\* unsupported type, 0 when there is none
FirstFailing(actions) ==
    LET F == {i \in DOMAIN actions : ActionCode(actions[i]) # 0}
    IN  IF F = {} THEN 0 ELSE SetMin(F)
Started(log) == SelectSeq(log, LAMBDA e : e.ev = "action")

====
